---- MODULE Spec2Model ----
(***************************************************************************)
(* A model of the log pipelines of nginx-log-archiver:                     *)
(*   - archiver.py            archive_logs (CSV blobs -> parquet archive)  *)
(*   - consolidator.py        consolidate_logs (JSON blobs -> CSV)         *)
(*   - logfile_clean.py       delete_logs (retention sweeper)              *)
(* The remote blob containers are shared state; every remote call of a run *)
(* is one step, and may fail (the environment chooses).                    *)
(***************************************************************************)
EXTENDS Integers, Sequences, FiniteSets, TLC

\* ------------------------------------------------------------------ bounds
\* Hours of one day for which the log producer may write a source CSV blob.
MaxBlobs == 2

\* ------------------------------------------------------- text and ordering
Digits == {"0", "1", "2", "3", "4", "5", "6", "7", "8", "9"}

DigitVal(c) ==
    CASE c = "0" -> 0 [] c = "1" -> 1 [] c = "2" -> 2 [] c = "3" -> 3
      [] c = "4" -> 4 [] c = "5" -> 5 [] c = "6" -> 6 [] c = "7" -> 7
      [] c = "8" -> 8 [] c = "9" -> 9

\* The characters the model's strings are made of, in code-point order.
Alphabet ==
    << "\n", "\r", " ", "\"", "'", "-", ".", "/",
       "0", "1", "2", "3", "4", "5", "6", "7", "8", "9",
       "G", "H", "P", "T", "a", "b", "c", "h", "u", "x" >>

\* Position of a character in that order.
CharOrd(c) == CHOOSE i \in 1..Len(Alphabet) : Alphabet[i] = c

RECURSIVE Num(_)
Num(s) == IF s = <<>> THEN 0 ELSE 10 * Num(SubSeq(s, 1, Len(s) - 1)) + DigitVal(s[Len(s)])

AllDigits(s) == \A i \in 1..Len(s) : s[i] \in Digits

\* str.startswith / list_blobs(name_starts_with=...)
StartsWith(s, prefix) ==
    /\ Len(prefix) <= Len(s)
    /\ SubSeq(s, 1, Len(prefix)) = prefix

\* Python's order on strings: lexicographic, a proper prefix first.
RECURSIVE StrLess(_, _)
StrLess(s, t) ==
    IF t = <<>> THEN FALSE
    ELSE IF s = <<>> THEN TRUE
    ELSE IF s[1] # t[1] THEN CharOrd(s[1]) < CharOrd(t[1])
    ELSE StrLess(Tail(s), Tail(t))

\* The members of a set of strings as the ascending list (blob listings and
\* sorted(os.listdir(...)) are both in name order).
RECURSIVE SortedNames(_)
SortedNames(S) ==
    IF S = {} THEN <<>>
    ELSE LET m == CHOOSE x \in S : \A y \in S \ {x} : StrLess(x, y)
         IN  <<m>> \o SortedNames(S \ {m})

Range(s) == {s[i] : i \in 1..Len(s)}

\* ------------------------------------------------ datetime.strptime(%Y%m%d)
IsLeap(y) == (y % 4 = 0 /\ y % 100 # 0) \/ y % 400 = 0

DaysIn(y, m) ==
    CASE m \in {1, 3, 5, 7, 8, 10, 12} -> 31
      [] m \in {4, 6, 9, 11} -> 30
      [] OTHER -> IF IsLeap(y) THEN 29 ELSE 28

\* %Y is four digits; %m and %d are one or two digits each (01..12 / 1..9 and
\* 01..31 / 1..9, the day also a space and one digit); the whole string must
\* be consumed and name a real date.
StrptimeOk(s) ==
    \E lm \in {1, 2}, ld \in {1, 2} :
        /\ Len(s) = 4 + lm + ld
        /\ AllDigits(SubSeq(s, 1, 4 + lm))
        /\ LET dd == SubSeq(s, 5 + lm, Len(s))
               day == IF ld = 2 /\ dd[1] = " " THEN <<dd[2]>> ELSE dd
               y == Num(SubSeq(s, 1, 4))
               m == Num(SubSeq(s, 5, 4 + lm))
           IN  /\ AllDigits(day)
               /\ y >= 1
               /\ m \in 1..12
               /\ lm = 1 => s[5] # "0"
               /\ Num(day) \in 1..DaysIn(y, m)
               /\ Len(day) = 1 => day[1] # "0"


\* ------------------------------------------------------------- blob names
\* A source CSV blob is named <YYYYmmdd><HH>.nginx.access.csv; the model keeps
\* the stamp, the part a name_starts_with filter on a datestamp can tell apart.
DayA == <<"2", "0", "2", "4", "0", "1", "1", "5">>
DayB == <<"2", "0", "2", "4", "0", "1", "1", "6">>

HourOf(h) == <<"0", CHOOSE c \in Digits : DigitVal(c) = h>>

\* The names the log producer may ever write.
CsvNames == {DayA \o HourOf(h) : h \in 1..MaxBlobs} \cup {DayB \o HourOf(1)}

\* Datestamp arguments a caller may pass: two days, two short forms that
\* strptime accepts (2024-01-1, a prefix of both days, and "20241 5") and three
\* malformed ones.
Datestamps ==
    { DayA,
      DayB,
      <<"2", "0", "2", "4", "0", "1", "1">>,
      <<"2", "0", "2", "4", "1", " ", "5">>,
      <<"2", "0", "2", "4", "-", "0", "1", "-", "1", "5">>,
      <<"2", "0", "2", "4", "1", "3", "0", "1">>,
      <<>> }

\* ------------------------------------------------------------ CSV content
\* The header of archiver.py has 12 column names.
CanonicalCols == 12

\* One line of a CSV file: its timestamp and its number of columns.
HeaderLine == [ts |-> 0, cols |-> CanonicalCols]
CsvRow(t) == [ts |-> t, cols |-> CanonicalCols]
ShortRow(t) == [ts |-> t, cols |-> CanonicalCols - 1]

\* What a source CSV blob may hold: nothing, two rows in timestamp order (the
\* consolidator writes its CSVs sorted), and a file with a malformed (short)
\* row between two good ones.
CsvContents ==
    { <<>>,
      <<CsvRow(1), CsvRow(2)>>,
      <<CsvRow(1), ShortRow(2), CsvRow(3)>> }

\* prepend_header_row: False for an empty file, else the file gets the header.
PrependHeaderRowOk(file) == Len(file) > 0
PrependHeaderRow(file) == IF Len(file) > 0 THEN <<HeaderLine>> \o file ELSE file

\* invalid_row_handler: what pyarrow is told to do with a row whose column
\* count differs from the header's.
InvalidRowHandler(row) == "error"

\* pyarrow.csv.read_csv with the handler above: the first line names the
\* columns; a row of another width goes to the handler, whose answer "error"
\* makes read_csv raise and whose answer "skip" drops that row.
ReadCsv(file) ==
    LET width == file[1].cols
        data == Tail(file)
        bad == {i \in 1..Len(data) : data[i].cols # width}
    IN  IF \E i \in bad : InvalidRowHandler(data[i]) = "error"
        THEN [ok |-> FALSE, rows |-> <<>>]
        ELSE [ok |-> TRUE, rows |-> SelectSeq(data, LAMBDA row : row.cols = width)]

\* The loop of archive_logs over the sorted directory listing: an empty file is
\* skipped, a file that read_csv rejects ends the run (return), every other file
\* adds a table.
RECURSIVE LoadTables(_, _, _)
LoadTables(dir, files, tables) ==
    IF files = <<>> THEN [ok |-> TRUE, tables |-> tables]
    ELSE LET file == dir[Head(files)]
         IN  IF ~PrependHeaderRowOk(file)
             THEN LoadTables(dir, Tail(files), tables)
             ELSE LET t == ReadCsv(PrependHeaderRow(file))
                  IN  IF t.ok
                      THEN LoadTables(dir, Tail(files), Append(tables, t.rows))
                      ELSE [ok |-> FALSE, tables |-> tables]

\* pyarrow.concat_tables: the rows of the tables, in list order.
RECURSIVE ConcatTables(_)
ConcatTables(tables) ==
    IF tables = <<>> THEN <<>> ELSE Head(tables) \o ConcatTables(Tail(tables))


\* ------------------------------------------------------------------ state
VARIABLES
    src,        \* container access-logs: source CSV blob name -> content
    written,    \* the names the log producer has written so far
    archive,    \* container access-logs, archive/<datestamp>.nginx.access.parquet:
                \* datestamp -> [rows, tier]
    arch,       \* the runs of archive_logs: run -> its locals and its remote calls
    jsrc,       \* container access-logs-json: JSON blob name -> lines
    jwritten,   \* the JSON blob names the Nginx hosts have written so far
    jdest,      \* container access-logs: consolidated CSV name -> rows
    cons,       \* the run of consolidator.consolidate_logs
    parse,      \* consolidate_json_access_requests alone: [files, done, out]
    logfiles,   \* consolidate_logfiles alone: [files, done, out]
    fsrc,       \* container fastly, the logs of the services: blob name -> rows
    fwritten,   \* the Fastly blob names written so far
    fdest,      \* container fastly, consolidated CSVs: timestamp -> rows
    fast,       \* the run of consolidator_fastly.consolidate_fastly_logs
    tmp,        \* the local directories /tmp/blobs and /tmp/csv of the script
    script,     \* the runs of scripts/fastly_consolidate_logs.consolidate_logs
    blobs,      \* the container the retention sweeper works on: id -> properties
    sweep,      \* the run of logfile_clean.delete_logs
    fblobs,     \* container fastly as the bulk deletion sees it: blob -> creation time
    mass        \* the run of scripts/fastly_delete_blobs.mass_delete_blobs and its pool

archVars == <<src, written, archive, arch>>
jsonVars == <<jsrc, jwritten, jdest, cons>>
sweepVars == <<blobs, sweep>>
pureVars == <<parse, logfiles>>
fastVars == <<fsrc, fwritten, fdest, fast>>
scriptVars == <<tmp, script>>
massVars == <<fblobs, mass>>
vars == <<archVars, jsonVars, pureVars, fastVars, scriptVars, sweepVars, massVars>>

notArch == <<jsonVars, pureVars, fastVars, scriptVars, sweepVars, massVars>>
notJson == <<archVars, pureVars, fastVars, scriptVars, sweepVars, massVars>>
notParse == <<archVars, jsonVars, logfiles, fastVars, scriptVars, sweepVars, massVars>>
notLogfiles == <<archVars, jsonVars, parse, fastVars, scriptVars, sweepVars, massVars>>
notFast == <<archVars, jsonVars, pureVars, scriptVars, sweepVars, massVars>>
notScript == <<archVars, jsonVars, pureVars, fdest, fast, sweepVars, massVars>>
notSweep == <<archVars, jsonVars, pureVars, fastVars, scriptVars, massVars>>
notMass == <<archVars, jsonVars, pureVars, fastVars, scriptVars, sweepVars>>

\* Two processes may run archive_logs; nothing in the code keeps them apart.
Runs == {"r1", "r2"}

EmptyDir == [n \in {} |-> <<>>]

Call(op, blob, ok) == [op |-> op, blob |-> blob, ok |-> ok]

\* ContainerClient.list_blobs(name_starts_with=prefix), in name order.
ListBlobs(container, prefix) ==
    SortedNames({n \in DOMAIN container : StartsWith(n, prefix)})

Without(container, name) == [n \in DOMAIN container \ {name} |-> container[n]]

IdleRun ==
    [ pc |-> "idle", datestamp |-> <<>>, delete_source |-> FALSE,
      csv_blobs |-> <<>>, dl_blobs |-> <<>>, i |-> 0, csv_dir |-> EmptyDir,
      same_schema |-> TRUE, pq |-> <<>>, calls |-> <<>>, ret |-> "none" ]

\* How a run ends: archive_logs returns, or an exception leaves it.
Returned(run) == [run EXCEPT !.pc = "done", !.ret = "returned"]
Raised(run) == [run EXCEPT !.pc = "done", !.ret = "raised"]
Logged(run, op, blob, ok) == [run EXCEPT !.calls = Append(@, Call(op, blob, ok))]

\* -------------------------------------------------- archiver.archive_logs
\* A variant that takes every datestamp.
ValidDatestamp_Unchecked(datestamp) == TRUE

\* Lines 88-92: the datestamp is valid when strptime does not raise.
ValidDatestamp(datestamp) == StrptimeOk(datestamp)

\* Lines 87-92: the call, and the validation of the datestamp.
ArchiveStart(r, datestamp, delete_source) ==
    /\ arch[r].pc = "idle"
    /\ LET run == [arch[r] EXCEPT !.datestamp = datestamp,
                                  !.delete_source = delete_source]
       IN  arch' = [arch EXCEPT ![r] =
                IF ValidDatestamp(datestamp) THEN [run EXCEPT !.pc = "list"]
                ELSE Returned(run)]
    /\ UNCHANGED <<src, written, archive, notArch>>

\* Lines 94-99: the enumeration whose list is kept for the deletion.
ArchiveList(r) ==
    /\ arch[r].pc = "list"
    /\ \E ok \in BOOLEAN :
          LET run == Logged(arch[r], "list", arch[r].datestamp, ok)
              csv_blobs == ListBlobs(src, run.datestamp)
          IN  arch' = [arch EXCEPT ![r] =
                  IF ~ok THEN Raised(run)
                  ELSE IF csv_blobs = <<>> THEN Returned(run)
                  ELSE [run EXCEPT !.csv_blobs = csv_blobs, !.pc = "dl_list"]]
    /\ UNCHANGED <<src, written, archive, notArch>>

\* download_logs, lines 36-41: its own enumeration; an empty one returns None
\* and archive_logs returns (lines 105-107).
DownloadList(r) ==
    /\ arch[r].pc = "dl_list"
    /\ \E ok \in BOOLEAN :
          LET run == Logged(arch[r], "list", arch[r].datestamp, ok)
              csv_blobs == ListBlobs(src, run.datestamp)
          IN  arch' = [arch EXCEPT ![r] =
                  IF ~ok THEN Raised(run)
                  ELSE IF csv_blobs = <<>> THEN Returned(run)
                  ELSE [run EXCEPT !.dl_blobs = csv_blobs, !.i = 1, !.pc = "download"]]
    /\ UNCHANGED <<src, written, archive, notArch>>

\* A variant that goes on to the consolidation after a failed download.
AfterFailedDownload_Ignored(run) == [run EXCEPT !.pc = "load"]

\* What archive_logs does when download_logs reports a failed download
\* (lines 105-107: "if not downloaded: return").
AfterFailedDownload(run) == Returned(run)

\* download_logs, lines 44-58: one blob. open(dest_path, "wb") creates the
\* file before the download; a failed download (the blob is gone, or the
\* transfer fails) is caught and download_logs returns None.
Download(r) ==
    /\ arch[r].pc = "download"
    /\ LET name == arch[r].dl_blobs[arch[r].i]
       IN  \E ok \in BOOLEAN :
              /\ ok => name \in DOMAIN src
              /\ LET run == Logged(arch[r], "download", name, ok)
                 IN  arch' = [arch EXCEPT ![r] =
                         IF ~ok
                         THEN AfterFailedDownload(
                                  [run EXCEPT !.csv_dir = (name :> <<>>) @@ @])
                         ELSE [run EXCEPT
                                  !.csv_dir = (name :> src[name]) @@ @,
                                  !.i = @ + 1,
                                  !.pc = IF run.i = Len(run.dl_blobs)
                                         THEN "load" ELSE "download"]]
    /\ UNCHANGED <<src, written, archive, notArch>>

\* Lines 109-138: the local consolidation. A file read_csv rejects makes
\* archive_logs return; concat_tables raises on an empty list of tables and
\* on tables whose inferred schemas differ (the column types pyarrow infers
\* are not part of the model: the environment chooses).
Load(r) ==
    /\ arch[r].pc = "load"
    /\ LET csv_files == SortedNames(DOMAIN arch[r].csv_dir)
           loaded == LoadTables(arch[r].csv_dir, csv_files, <<>>)
       IN  \E same_schema \in BOOLEAN :
              /\ Len(loaded.tables) <= 1 => same_schema
              /\ LET run == [arch[r] EXCEPT !.same_schema = same_schema]
                 IN  arch' = [arch EXCEPT ![r] =
                     IF ~loaded.ok THEN Returned(run)
                     ELSE IF loaded.tables = <<>> \/ ~same_schema THEN Raised(run)
                     ELSE [run EXCEPT !.pq = ConcatTables(loaded.tables),
                                      !.pc = "upload"]]
    /\ UNCHANGED <<src, written, archive, notArch>>

\* Lines 140-144: upload_blob(overwrite=True) of the parquet file.
Upload(r) ==
    /\ arch[r].pc = "upload"
    /\ \E ok \in BOOLEAN :
          LET run == Logged(arch[r], "upload", arch[r].datestamp, ok)
          IN  /\ arch' = [arch EXCEPT ![r] =
                     IF ok THEN [run EXCEPT !.pc = "tier"] ELSE Raised(run)]
              /\ archive' = IF ok
                            THEN (run.datestamp :> [rows |-> run.pq, tier |-> "Default"])
                                     @@ archive
                            ELSE archive
    /\ UNCHANGED <<src, written, notArch>>

\* A variant that deletes the sources whatever delete_source says.
AfterTier_AlwaysDelete(run) == [run EXCEPT !.i = 1, !.pc = "delete"]

\* Where archive_logs goes after set_standard_blob_tier (line 149).
AfterTier(run) ==
    IF run.delete_source THEN [run EXCEPT !.i = 1, !.pc = "delete"] ELSE Returned(run)

\* Lines 146-147: set_standard_blob_tier("Cold").
SetTier(r) ==
    /\ arch[r].pc = "tier"
    /\ \E ok \in BOOLEAN :
          /\ ok => arch[r].datestamp \in DOMAIN archive
          /\ LET run == Logged(arch[r], "set_tier", arch[r].datestamp, ok)
             IN  /\ arch' = [arch EXCEPT ![r] =
                        IF ok THEN AfterTier(run) ELSE Raised(run)]
                 /\ archive' = IF ok
                               THEN [archive EXCEPT ![run.datestamp].tier = "Cold"]
                               ELSE archive
    /\ UNCHANGED <<src, written, notArch>>

\* A variant whose deletion covers every blob of the datestamp written so far,
\* as a second enumeration at deletion time would.
BlobsToDelete_Reenumerated(run) ==
    SortedNames(Range(run.csv_blobs)
                \cup {n \in written : StartsWith(n, run.datestamp)})

\* The list the deletion loop of archive_logs iterates (line 151).
BlobsToDelete(run) == run.csv_blobs

\* Lines 149-154: delete_blob on one blob of the list; an exception (the blob
\* is gone, or the call fails) leaves archive_logs.
Delete(r) ==
    /\ arch[r].pc = "delete"
    /\ LET name == BlobsToDelete(arch[r])[arch[r].i]
       IN  \E ok \in BOOLEAN :
              /\ ok => name \in DOMAIN src
              /\ LET run == Logged(arch[r], "delete", name, ok)
                 IN  /\ arch' = [arch EXCEPT ![r] =
                            IF ~ok THEN Raised(run)
                            ELSE IF run.i = Len(BlobsToDelete(run)) THEN Returned(run)
                            ELSE [run EXCEPT !.i = @ + 1]]
                     /\ src' = IF ok THEN Without(src, name) ELSE src
    /\ UNCHANGED <<written, archive, notArch>>

\* The log producer writes a new source blob (a SourceBlob is written once).
Produce(name, content) ==
    /\ name \notin written
    /\ src' = (name :> content) @@ src
    /\ written' = written \cup {name}
    /\ UNCHANGED <<archive, arch, notArch>>



\* ---------------------------------------------------- archive_logs: claims
CallsOf(run, op) == {i \in 1..Len(run.calls) : run.calls[i].op = op}
OkCallsOf(run, op) == {i \in CallsOf(run, op) : run.calls[i].ok}
FailedCallsOf(run, op) == {i \in CallsOf(run, op) : ~run.calls[i].ok}
Mutations(run) == CallsOf(run, "upload") \cup CallsOf(run, "set_tier") \cup CallsOf(run, "delete")

\* C1: a run of archive_logs in which a download failed issues no upload, no
\* set-tier and no delete call; no artifact exists and every source blob
\* written so far is still in the container.
C1_FailedDownloadNoMutation ==
    \A r \in Runs :
        FailedCallsOf(arch[r], "download") # {} =>
            /\ Mutations(arch[r]) = {}
            /\ archive = EmptyDir
            /\ DOMAIN src = written

\* C1 witness: with delete_source set, the second of several downloads failed
\* after the first succeeded, and the run has ended.
C1_Witness ==
    \E r \in Runs :
        /\ arch[r].pc = "done"
        /\ arch[r].delete_source
        /\ Len(arch[r].dl_blobs) >= 2
        /\ OkCallsOf(arch[r], "download") # {}
        /\ FailedCallsOf(arch[r], "download") # {}

\* C3: in every run the remote mutations come in the order upload, set tier,
\* deletions: set_tier is called only after an upload that succeeded, a delete
\* only with delete_source and after a set_tier that succeeded, and nothing is
\* uploaded or re-tiered once a delete was issued; a run that an exception
\* left before its set_tier succeeded has deleted nothing.
C3_UploadTierDeleteOrder ==
    \A r \in Runs :
        LET run == arch[r] IN
        /\ \A j \in CallsOf(run, "upload") :
              \A i \in 1..(j - 1) : run.calls[i].op \notin {"upload", "set_tier", "delete"}
        /\ \A j \in CallsOf(run, "set_tier") :
              /\ \E i \in OkCallsOf(run, "upload") : i < j
              /\ \A i \in 1..(j - 1) : run.calls[i].op \notin {"set_tier", "delete"}
        /\ \A j \in CallsOf(run, "delete") :
              /\ run.delete_source
              /\ \E i \in OkCallsOf(run, "set_tier") : i < j
        /\ (run.ret = "raised" /\ OkCallsOf(run, "set_tier") = {}) =>
              /\ CallsOf(run, "delete") = {}
              /\ DOMAIN src = written

\* C3 witness: a run with delete_source that uploaded, set the tier and then
\* deleted two source blobs.
C3_Witness ==
    \E r \in Runs :
        /\ arch[r].ret = "returned"
        /\ OkCallsOf(arch[r], "upload") # {}
        /\ OkCallsOf(arch[r], "set_tier") # {}
        /\ Cardinality(OkCallsOf(arch[r], "delete")) >= 2

\* C4: every delete call of a run names a blob of the list its first
\* enumeration captured, and every blob the producer has written that is in no
\* run's captured list (one written after the enumeration, or one of another
\* day) is still in the container.
C4_DeletesOnlyEnumerated ==
    /\ \A r \in Runs :
          \A i \in CallsOf(arch[r], "delete") :
              arch[r].calls[i].blob \in Range(arch[r].csv_blobs)
    /\ \A n \in written :
          (\A r \in Runs : n \notin Range(arch[r].csv_blobs)) => n \in DOMAIN src

\* C4 witness: the run deleted its whole list and returned, and a blob of the
\* same datestamp, written after the enumeration, is in the container.
C4_Witness ==
    \E r \in Runs :
        /\ arch[r].ret = "returned"
        /\ Cardinality(OkCallsOf(arch[r], "delete")) = Len(arch[r].csv_blobs)
        /\ Len(arch[r].csv_blobs) >= 1
        /\ \E n \in DOMAIN src :
              /\ StartsWith(n, arch[r].datestamp)
              /\ n \notin Range(arch[r].csv_blobs)

\* The rows of the downloaded files that have the canonical number of columns,
\* in the order archive_logs reads the files.
RECURSIVE ValidRows(_, _)
ValidRows(dir, files) ==
    IF files = <<>> THEN <<>>
    ELSE SelectSeq(dir[Head(files)], LAMBDA row : row.cols = CanonicalCols)
             \o ValidRows(dir, Tail(files))

HasMalformedRow(dir) ==
    \E n \in DOMAIN dir : \E i \in 1..Len(dir[n]) : dir[n][i].cols # CanonicalCols

\* C10: a run whose downloads all succeeded, in which no remote call failed and
\* which returned, has uploaded an artifact holding every valid row of every
\* downloaded file, also when a file holds a malformed row.
C10_MalformedRowIsolated ==
    \A r \in Runs :
        LET run == arch[r] IN
        ( /\ run.ret = "returned"
          /\ Len(run.dl_blobs) >= 1
          /\ Cardinality(OkCallsOf(run, "download")) = Len(run.dl_blobs)
          /\ \A i \in 1..Len(run.calls) : run.calls[i].ok
          /\ HasMalformedRow(run.csv_dir) )
        => /\ OkCallsOf(run, "upload") # {}
           /\ run.datestamp \in DOMAIN archive
           /\ archive[run.datestamp].rows =
                  ValidRows(run.csv_dir, SortedNames(DOMAIN run.csv_dir))


\* ========================================================================
\* consolidator.py: JSON logs of the Nginx hosts -> one CSV per datestamp
\* ========================================================================

\* ------------------------------------------------------------- JSON lines
\* One line of a downloaded JSON log, as orjson.loads sees it: parse is
\* "dict" (d holds the object), "other" (valid JSON that is not an object) or
\* "error" (loads raises JSONDecodeError: garbage, a blank line, a CSV row).
\* String values are sequences of characters.
JsonLine(d) == [parse |-> "dict", d |-> d]
Garbage == [parse |-> "error", d |-> <<>>]
CsvLine(row) == [parse |-> "error", d |-> row]

\* An access request as Nginx logs it (source stdout, no "log" key).
AccessRecord(ts, status) ==
    [ source |-> "stdout", timestamp |-> <<ts>>, remote_ip |-> <<"1">>,
      host |-> <<"h">>, uri |-> <<"/">>, query |-> <<>>, method |-> <<"G">>,
      protocol |-> <<"H">>, status |-> status, request_time |-> <<"0", ".", "5">>,
      bytes_sent |-> <<"9">>, user_agent |-> <<"u", "\"", "a">>, ssouser |-> <<>> ]

\* The same record without its "uri" field.
AccessRecordNoUri(ts) ==
    [ source |-> "stdout", timestamp |-> <<ts>>, remote_ip |-> <<"1">>,
      host |-> <<"h">>, query |-> <<>>, method |-> <<"G">>,
      protocol |-> <<"H">>, status |-> <<"2", "0", "0">>,
      request_time |-> <<"0", ".", "5">>,
      bytes_sent |-> <<"9">>, user_agent |-> <<"u", "a">>, ssouser |-> <<>> ]

\* An error line (source stderr); log holds what the pattern of
\* consolidate_json_errors makes of the text: whether it matches, and its groups.
ErrorRecord(matches) ==
    [ source |-> "stderr",
      log |-> [matches |-> matches, datestamp |-> <<"2">>, level |-> <<"a">>,
               message |-> <<"x">>] ]

Ok200 == <<"2", "0", "0">>
Ok404 == <<"4", "0", "4">>

\* The lines a JSON log may hold.
JsonLines ==
    { JsonLine(AccessRecord("2", Ok200)),
      JsonLine(AccessRecord("1", Ok404)),
      JsonLine(AccessRecord("1", <<"a", "b", "c">>)),
      JsonLine(AccessRecordNoUri("1")),
      JsonLine(ErrorRecord(TRUE)),
      JsonLine(ErrorRecord(FALSE)),
      JsonLine([source |-> "stdout", log |-> [matches |-> FALSE]]),
      JsonLine([source |-> "stderr"]),
      JsonLine([timestamp |-> <<"1">>]),
      Garbage }

\* int(s): defined on the digit strings.
IntOk(s) == Len(s) >= 1 /\ AllDigits(s)

\* float(s): digits, optionally a point and more digits.
FloatOk(s) ==
    \/ IntOk(s)
    \/ \E k \in 2..(Len(s) - 1) :
          /\ s[k] = "."
          /\ IntOk(SubSeq(s, 1, k - 1))
          /\ IntOk(SubSeq(s, k + 1, Len(s)))

RECURSIVE Pow10(_)
Pow10(n) == IF n = 0 THEN 1 ELSE 10 * Pow10(n - 1)

\* int(float(s) * 1000 * 1000) for at most six decimals.
Micros(s) ==
    IF IntOk(s) THEN Num(s) * 1000000
    ELSE LET k == CHOOSE j \in 2..(Len(s) - 1) : s[j] = "."
             frac == SubSeq(s, k + 1, Len(s))
         IN  Num(SubSeq(s, 1, k - 1)) * 1000000
                 + (Num(frac) * 1000000) \div Pow10(Len(frac))

\* re.sub(r"\r|\n|\"|'", "", user_agent)
StripUserAgent(s) == SelectSeq(s, LAMBDA c : c \notin {"\r", "\n", "\"", "'"})

AccessFields ==
    { "timestamp", "remote_ip", "host", "uri", "query", "method", "protocol",
      "status", "request_time", "bytes_sent", "user_agent", "ssouser" }

\* Lines 95-96 of consolidate_json_access_requests, outside the try: loads
\* raises on a line that is not JSON, d["source"] on a value that is no
\* object or has no "source".
AccessLineRaises(line) ==
    \/ line.parse = "error"
    \/ line.parse = "other"
    \/ "source" \notin DOMAIN line.d

\* Line 96: the lines that are access requests.
IsAccessLine(line) == line.d.source = "stdout" /\ "log" \notin DOMAIN line.d

\* Lines 97-117, inside the try: a missing field or a failed coercion skips
\* the line.
AccessRowOk(d) ==
    /\ AccessFields \subseteq DOMAIN d
    /\ IntOk(d.status)
    /\ FloatOk(d.request_time)
    /\ IntOk(d.bytes_sent)

AccessRow(d) ==
    << d.timestamp, d.remote_ip, d.host, d.uri, d.query, d.method, d.protocol,
       Num(d.status), Micros(d.request_time), Num(d.bytes_sent),
       StripUserAgent(d.user_agent), d.ssouser >>

IntColumns == {8, 9, 10}

\* Python's order on two rows (lists): the first differing element decides,
\* strings by code point and integers by value; a proper prefix comes first.
RECURSIVE RowLess(_, _, _)
RowLess(a, b, k) ==
    IF k > Len(b) THEN FALSE
    ELSE IF k > Len(a) THEN TRUE
    ELSE IF a[k] = b[k] THEN RowLess(a, b, k + 1)
    ELSE IF k \in IntColumns /\ Len(a) = 12 /\ Len(b) = 12 THEN a[k] < b[k]
    ELSE StrLess(a[k], b[k])

\* sorted(loglist): insertion keeps equal rows in their input order.
RECURSIVE Insert(_, _)
Insert(sorted, row) ==
    IF sorted = <<>> THEN <<row>>
    ELSE IF RowLess(row, Head(sorted), 1) THEN <<row>> \o sorted
    ELSE <<Head(sorted)>> \o Insert(Tail(sorted), row)

RECURSIVE Sorted(_)
Sorted(loglist) ==
    IF loglist = <<>> THEN <<>>
    ELSE Insert(Sorted(SubSeq(loglist, 1, Len(loglist) - 1)), loglist[Len(loglist)])

\* The loop over the lines of one file (lines 94-117): the rows it appends,
\* or a raise.
RECURSIVE AccessRowsOf(_)
AccessRowsOf(lines) ==
    IF lines = <<>> THEN [raised |-> FALSE, rows |-> <<>>]
    ELSE IF AccessLineRaises(Head(lines)) THEN [raised |-> TRUE, rows |-> <<>>]
    ELSE LET rest == AccessRowsOf(Tail(lines))
             d == Head(lines).d
         IN  IF rest.raised THEN rest
             ELSE IF IsAccessLine(Head(lines)) /\ AccessRowOk(d)
             THEN [raised |-> FALSE, rows |-> <<AccessRow(d)>> \o rest.rows]
             ELSE rest

\* The files of a directory as a list, in name order of their keys.
RECURSIVE FilesOf(_, _)
FilesOf(dir, names) ==
    IF names = <<>> THEN <<>> ELSE <<dir[Head(names)]>> \o FilesOf(dir, Tail(names))

RECURSIVE AccessRowsOfFiles(_)
AccessRowsOfFiles(files) ==
    IF files = <<>> THEN [raised |-> FALSE, rows |-> <<>>]
    ELSE LET first == AccessRowsOf(Head(files))
             rest == AccessRowsOfFiles(Tail(files))
         IN  IF first.raised \/ rest.raised THEN [raised |-> TRUE, rows |-> <<>>]
             ELSE [raised |-> FALSE, rows |-> first.rows \o rest.rows]

\* consolidate_json_access_requests over the files it lists (given as a list):
\* the rows of <datestamp>.nginx.access.csv, or a raise.
ConsolidateJsonAccessRequests(files) ==
    LET got == AccessRowsOfFiles(files)
    IN  IF got.raised THEN got ELSE [raised |-> FALSE, rows |-> Sorted(got.rows)]


\* Lines 142-144 of consolidate_json_errors, outside the try: loads,
\* d["source"], and d["log"] for an stderr line.
ErrorLineRaises(line) ==
    \/ AccessLineRaises(line)
    \/ line.d.source = "stderr" /\ "log" \notin DOMAIN line.d

RECURSIVE ErrorRowsOf(_)
ErrorRowsOf(lines) ==
    IF lines = <<>> THEN [raised |-> FALSE, rows |-> <<>>]
    ELSE IF ErrorLineRaises(Head(lines)) THEN [raised |-> TRUE, rows |-> <<>>]
    ELSE LET rest == ErrorRowsOf(Tail(lines))
             d == Head(lines).d
         IN  IF rest.raised THEN rest
             ELSE IF d.source = "stderr" /\ d.log.matches
             THEN [raised |-> FALSE,
                   rows |-> <<<<d.log.datestamp, d.log.level, d.log.message>>>>
                                \o rest.rows]
             ELSE rest

RECURSIVE ErrorRowsOfFiles(_)
ErrorRowsOfFiles(files) ==
    IF files = <<>> THEN [raised |-> FALSE, rows |-> <<>>]
    ELSE LET first == ErrorRowsOf(Head(files))
             rest == ErrorRowsOfFiles(Tail(files))
         IN  IF first.raised \/ rest.raised THEN [raised |-> TRUE, rows |-> <<>>]
             ELSE [raised |-> FALSE, rows |-> first.rows \o rest.rows]

\* consolidate_json_errors over the files it lists: the rows of
\* <datestamp>.nginx.errors.csv, or a raise.
ConsolidateJsonErrors(files) ==
    LET got == ErrorRowsOfFiles(files)
    IN  IF got.raised THEN got ELSE [raised |-> FALSE, rows |-> Sorted(got.rows)]

\* csv.writer: the rows as the lines of the CSV file.
RECURSIVE CsvFile(_)
CsvFile(rows) == IF rows = <<>> THEN <<>> ELSE <<CsvLine(Head(rows))>> \o CsvFile(Tail(rows))

\* os.listdir: the names of a directory in some order.
RECURSIVE ListDir(_)
ListDir(S) ==
    IF S = {} THEN <<>>
    ELSE LET x == CHOOSE y \in S : TRUE IN <<x>> \o ListDir(S \ {x})

\* -------------------------------------------------------------- pure runs
\* consolidate_json_access_requests on a directory of downloaded files.

\* Lines per file in the runs of the function alone.
MaxLines == 2

RECURSIVE SeqsUpTo(_, _)
SeqsUpTo(S, n) ==
    IF n = 0 THEN {<<>>}
    ELSE LET shorter == SeqsUpTo(S, n - 1)
         IN  shorter \cup {Append(q, x) : q \in {t \in shorter : Len(t) = n - 1}, x \in S}

ParseIdle == [files |-> <<>>, done |-> FALSE, out |-> [raised |-> FALSE, rows |-> <<>>]]

\* The function applied to the files.
ParseAccess ==
    /\ ~parse.done
    /\ parse' = [parse EXCEPT !.done = TRUE,
                              !.out = ConsolidateJsonAccessRequests(parse.files)]
    /\ UNCHANGED notParse


\* --------------------------------------------- consolidator.consolidate_logs
\* The hosts of line 22, and a third one no run is asked about.
Host3 == "az-nginx-003"
Host5 == "az-nginx-005"

\* A JSON blob is named <host>/<file>; the file name carries a ten-digit
\* date-hour stamp, the only part of the name a datestamp can be found in.
JsonName(host, stamp) == [host |-> host, stamp |-> stamp]

JsonNames ==
    { JsonName(Host3, DayA \o HourOf(1)),
      JsonName(Host3, DayA \o HourOf(2)),
      JsonName(Host5, DayA \o HourOf(1)) }

\* What a JSON blob may hold.
JsonContents ==
    { <<>>,
      <<JsonLine(AccessRecord("2", Ok200)), JsonLine(ErrorRecord(TRUE))>>,
      <<JsonLine(ErrorRecord(TRUE))>>,
      <<JsonLine(AccessRecord("1", Ok404)), Garbage>> }

\* The hosts argument after hosts.split(",").
HostsArgs == {<<Host3>>, <<Host3, Host5>>}

\* The datestamp arguments: an hour, a day (found in the names of all its
\* hours), a day without blobs, and the empty string, which is no date and is
\* found in every name.
JsonDatestamps == {DayA \o HourOf(1), DayA, DayB, <<>>}

\* "datestamp in blob.name"
Contains(s, sub) ==
    \E k \in 1..(Len(s) - Len(sub) + 1) : SubSeq(s, k, k + Len(sub) - 1) = sub

\* Lines 30-35 and 66-70 for one host: list_blobs(name_starts_with=host) in
\* name order, filtered on the datestamp.
RECURSIVE NamesOf(_, _)
NamesOf(host, stamps) ==
    IF stamps = <<>> THEN <<>>
    ELSE <<JsonName(host, Head(stamps))>> \o NamesOf(host, Tail(stamps))

ListJsonBlobs(container, host, datestamp) ==
    NamesOf(host, SortedNames({n.stamp : n \in {m \in DOMAIN container :
                                   m.host = host /\ Contains(m.stamp, datestamp)}}))

\* The names of the files in the temporary directory. Each starts with the
\* datestamp of the run: <datestamp>.<host>.access.json for a download,
\* <datestamp>.nginx.access.csv and <datestamp>.nginx.errors.csv for the
\* outputs; the model keeps what follows the datestamp.
LocalJson(host) == host
AccessCsv == "nginx.access.csv"
ErrorsCsv == "nginx.errors.csv"

\* Lines 87-88 and 133-134: os.listdir filtered on f.startswith(datestamp),
\* which every file of the directory passes.
SourceJsonFiles(dir) == FilesOf(dir, ListDir(DOMAIN dir))

IdleCons ==
    [ pc |-> "idle", datestamp |-> <<>>, hosts |-> <<>>, delete_source |-> FALSE,
      h |-> 0, json_blobs |-> <<>>, del_blobs |-> <<>>, i |-> 0,
      temp_dir |-> EmptyDir,
      out_log |-> <<>>, calls |-> <<>>, ret |-> "none" ]

\* Line 173: the call. Nothing validates the datestamp.
ConsStart(datestamp, hosts, delete_source) ==
    /\ cons.pc = "idle"
    /\ cons' = [cons EXCEPT !.datestamp = datestamp, !.hosts = hosts,
                            !.delete_source = delete_source,
                            !.h = 1, !.pc = "dl_list"]
    /\ UNCHANGED <<jsrc, jwritten, jdest, notJson>>

\* What consolidate_logs does with the result of download_json_logs (line
\* 177): the result is not looked at, the consolidation follows in every case.
AfterDownloadJsonLogs(run, downloaded) == [run EXCEPT !.pc = "access"]

\* download_json_logs, lines 27-39: the enumeration, one host at a time.
\* An empty list returns None.
DownloadJsonList ==
    /\ cons.pc = "dl_list"
    /\ \E ok \in BOOLEAN :
          LET host == cons.hosts[cons.h]
              run == Logged(cons, "list", host, ok)
              json_blobs == run.json_blobs \o ListJsonBlobs(jsrc, host, run.datestamp)
          IN  cons' =
                  IF ~ok THEN Raised(run)
                  ELSE IF run.h < Len(run.hosts)
                  THEN [run EXCEPT !.json_blobs = json_blobs, !.h = @ + 1]
                  ELSE IF json_blobs = <<>> THEN AfterDownloadJsonLogs(run, FALSE)
                  ELSE [run EXCEPT !.json_blobs = json_blobs, !.i = 1, !.pc = "download"]
    /\ UNCHANGED <<jsrc, jwritten, jdest, notJson>>

\* download_json_logs, lines 42-58: one blob, into <datestamp>.<host>.access.json.
\* open(dest_path, "wb") truncates the file before the download; a failed
\* download is caught and download_json_logs returns None.
DownloadJson ==
    /\ cons.pc = "download"
    /\ LET blob == cons.json_blobs[cons.i]
           dest_path == LocalJson(blob.host)
       IN  \E ok \in BOOLEAN :
              /\ ok => blob \in DOMAIN jsrc
              /\ LET run == Logged(cons, "download", blob, ok)
                 IN  cons' =
                         IF ~ok
                         THEN AfterDownloadJsonLogs(
                                  [run EXCEPT !.temp_dir = (dest_path :> <<>>) @@ @], FALSE)
                         ELSE IF run.i = Len(run.json_blobs)
                         THEN AfterDownloadJsonLogs(
                                  [run EXCEPT !.temp_dir = (dest_path :> jsrc[blob]) @@ @], TRUE)
                         ELSE [run EXCEPT !.temp_dir = (dest_path :> jsrc[blob]) @@ @,
                                          !.i = @ + 1]
    /\ UNCHANGED <<jsrc, jwritten, jdest, notJson>>

\* Line 179: consolidate_json_access_requests writes the access CSV into the
\* temporary directory itself.
ConsolidateAccess ==
    /\ cons.pc = "access"
    /\ LET got == ConsolidateJsonAccessRequests(SourceJsonFiles(cons.temp_dir))
       IN  cons' =
               IF got.raised THEN Raised(cons)
               ELSE [cons EXCEPT !.temp_dir = (AccessCsv :> CsvFile(got.rows)) @@ @,
                                 !.out_log = got.rows,
                                 !.pc = "upload_access"]
    /\ UNCHANGED <<jsrc, jwritten, jdest, notJson>>

\* Lines 161-170: upload_log names the blob after the file and overwrites.
UploadedLog(container, datestamp, kind, rows) ==
    ([datestamp |-> datestamp, kind |-> kind] :> rows) @@ container

\* Line 181: the upload of the access CSV into the container access-logs.
UploadAccess ==
    /\ cons.pc = "upload_access"
    /\ \E ok \in BOOLEAN :
          LET run == Logged(cons, "upload", AccessCsv, ok)
          IN  /\ cons' = IF ok THEN [run EXCEPT !.pc = "errors"] ELSE Raised(run)
              /\ jdest' = IF ok
                          THEN UploadedLog(jdest, run.datestamp, AccessCsv, run.out_log)
                          ELSE jdest
    /\ UNCHANGED <<jsrc, jwritten, notJson>>

\* Line 183: consolidate_json_errors reads every file of the temporary
\* directory whose name starts with the datestamp: the downloads, and the
\* access CSV that line 179 wrote there.
ConsolidateErrors ==
    /\ cons.pc = "errors"
    /\ LET got == ConsolidateJsonErrors(SourceJsonFiles(cons.temp_dir))
       IN  cons' =
               IF got.raised THEN Raised(cons)
               ELSE [cons EXCEPT !.temp_dir = (ErrorsCsv :> CsvFile(got.rows)) @@ @,
                                 !.out_log = got.rows,
                                 !.pc = "upload_errors"]
    /\ UNCHANGED <<jsrc, jwritten, jdest, notJson>>

\* A variant that deletes the sources whatever delete_source says.
AfterUploadErrors_AlwaysDelete(run) == [run EXCEPT !.h = 1, !.pc = "del_list"]

\* Lines 186-188: the deletion is optional.
AfterUploadErrors(run) ==
    IF run.delete_source
    THEN [run EXCEPT !.h = 1, !.pc = "del_list"]
    ELSE Returned(run)

\* Line 185: the upload of the errors CSV.
UploadErrors ==
    /\ cons.pc = "upload_errors"
    /\ \E ok \in BOOLEAN :
          LET run == Logged(cons, "upload", ErrorsCsv, ok)
          IN  /\ cons' = IF ok THEN AfterUploadErrors(run) ELSE Raised(run)
              /\ jdest' = IF ok
                          THEN UploadedLog(jdest, run.datestamp, ErrorsCsv, run.out_log)
                          ELSE jdest
    /\ UNCHANGED <<jsrc, jwritten, notJson>>

\* delete_json_logs, lines 63-70: it enumerates again, one host at a time.
DeleteJsonList ==
    /\ cons.pc = "del_list"
    /\ \E ok \in BOOLEAN :
          LET host == cons.hosts[cons.h]
              run == Logged(cons, "list", host, ok)
              json_blobs == run.del_blobs \o ListJsonBlobs(jsrc, host, run.datestamp)
          IN  cons' =
                  IF ~ok THEN Raised(run)
                  ELSE IF run.h < Len(run.hosts)
                  THEN [run EXCEPT !.del_blobs = json_blobs, !.h = @ + 1]
                  ELSE IF json_blobs = <<>> THEN Returned(run)
                  ELSE [run EXCEPT !.del_blobs = json_blobs, !.i = 1, !.pc = "delete"]
    /\ UNCHANGED <<jsrc, jwritten, jdest, notJson>>

\* delete_json_logs, lines 72-80: one blob; a failed delete is caught and
\* delete_json_logs returns.
DeleteJson ==
    /\ cons.pc = "delete"
    /\ LET blob == cons.del_blobs[cons.i]
       IN  \E ok \in BOOLEAN :
              /\ ok => blob \in DOMAIN jsrc
              /\ LET run == Logged(cons, "delete", blob, ok)
                 IN  /\ cons' =
                            IF ~ok \/ run.i = Len(run.del_blobs) THEN Returned(run)
                            ELSE [run EXCEPT !.i = @ + 1]
                     /\ jsrc' = IF ok THEN Without(jsrc, blob) ELSE jsrc
    /\ UNCHANGED <<jwritten, jdest, notJson>>

\* An Nginx host writes a new JSON blob.
ProduceJson(name, content) ==
    /\ name \notin jwritten
    /\ jsrc' = (name :> content) @@ jsrc
    /\ jwritten' = jwritten \cup {name}
    /\ UNCHANGED <<jdest, cons, notJson>>


\* ========================================================================
\* consolidator_fastly.py: Fastly logs of the services -> one CSV per hour
\* ========================================================================

\* ------------------------------------------------- consolidate_logfiles
\* One row as csv.UnicodeReader yields it: the list of its fields, each a
\* string. The first field is the timestamp; a blank line yields the empty
\* list.
LogRow(ts, tag) == <<<<ts>>, <<tag>>>> \o [i \in 1..(CanonicalCols - 2) |-> <<"x">>]
ShortLogRow(ts) == SubSeq(LogRow(ts, "a"), 1, CanonicalCols - 1)
LongLogRow(ts) == Append(LogRow(ts, "a"), <<"x">>)
BlankLine == <<>>

\* The rows a Fastly log may hold.
LogRows ==
    { LogRow("2", "a"),
      LogRow("1", "b"),
      LogRow("1", "a"),
      ShortLogRow("1"),
      LongLogRow("3"),
      BlankLine }

\* A downloaded file: whether its name ends with ".log", and its rows.
LogFile(is_log, rows) == [log |-> is_log, rows |-> rows]

\* Line 35: row[0] raises IndexError on a row without fields.
LogRowRaises(row) == Len(row) = 0

\* Lines 33-35 for one file: the pairs [row[0], row] it appends, or a raise.
RECURSIVE KeyedRowsOf(_)
KeyedRowsOf(rows) ==
    IF rows = <<>> THEN [raised |-> FALSE, rows |-> <<>>]
    ELSE IF LogRowRaises(Head(rows)) THEN [raised |-> TRUE, rows |-> <<>>]
    ELSE LET rest == KeyedRowsOf(Tail(rows))
         IN  IF rest.raised THEN rest
             ELSE [raised |-> FALSE,
                   rows |-> <<<<Head(rows)[1], Head(rows)>>>> \o rest.rows]

\* Lines 26-35: the files in listing order; only a .log file is read.
RECURSIVE KeyedRowsOfFiles(_)
KeyedRowsOfFiles(files) ==
    IF files = <<>> THEN [raised |-> FALSE, rows |-> <<>>]
    ELSE LET first == IF Head(files).log THEN KeyedRowsOf(Head(files).rows)
                      ELSE [raised |-> FALSE, rows |-> <<>>]
             rest == KeyedRowsOfFiles(Tail(files))
         IN  IF first.raised \/ rest.raised THEN [raised |-> TRUE, rows |-> <<>>]
             ELSE [raised |-> FALSE, rows |-> first.rows \o rest.rows]

\* Python's order on two lists of strings.
RECURSIVE FieldsLess(_, _)
FieldsLess(a, b) ==
    IF b = <<>> THEN FALSE
    ELSE IF a = <<>> THEN TRUE
    ELSE IF a[1] # b[1] THEN StrLess(a[1], b[1])
    ELSE FieldsLess(Tail(a), Tail(b))

\* Python's order on two entries [row[0], row] of loglist.
KeyedLess(x, y) ==
    IF x[1] # y[1] THEN StrLess(x[1], y[1]) ELSE FieldsLess(x[2], y[2])

RECURSIVE InsertKeyed(_, _)
InsertKeyed(sorted, entry) ==
    IF sorted = <<>> THEN <<entry>>
    ELSE IF KeyedLess(entry, Head(sorted)) THEN <<entry>> \o sorted
    ELSE <<Head(sorted)>> \o InsertKeyed(Tail(sorted), entry)

RECURSIVE SortedKeyed(_)
SortedKeyed(loglist) ==
    IF loglist = <<>> THEN <<>>
    ELSE InsertKeyed(SortedKeyed(SubSeq(loglist, 1, Len(loglist) - 1)),
                     loglist[Len(loglist)])

\* A variant that writes the entries in the order they were read.
SortLoglist_AsRead(loglist) == loglist

\* Line 41: sorted(loglist).
SortLoglist(loglist) == SortedKeyed(loglist)

\* Lines 41-44: of the sorted entries, the rows of 12 fields are written.
WrittenRows(entries) ==
    LET kept == SelectSeq(entries, LAMBDA entry : Len(entry[2]) = CanonicalCols)
    IN  [i \in 1..Len(kept) |-> kept[i][2]]

\* consolidate_logfiles over the files it lists: the rows of
\* <timestamp>:00:00Z.nginx.access.csv, or a raise.
ConsolidateLogfiles(files) ==
    LET got == KeyedRowsOfFiles(files)
    IN  IF got.raised THEN got
        ELSE [raised |-> FALSE, rows |-> WrittenRows(SortLoglist(got.rows))]

LogfilesIdle == [files |-> <<>>, done |-> FALSE, out |-> [raised |-> FALSE, rows |-> <<>>]]

\* The function applied to the files.
ParseLogfiles ==
    /\ ~logfiles.done
    /\ logfiles' = [logfiles EXCEPT !.done = TRUE,
                                    !.out = ConsolidateLogfiles(logfiles.files)]
    /\ UNCHANGED notLogfiles


\* ------------------------------------------------ consolidate_fastly_logs
\* The services whose logs Fastly writes under <service>/.
ServiceA == "azure-nginx"
ServiceB == "ria-ac3"

\* The timestamp argument: an hour in the format YYYY-mm-ddTHH.
HourA == <<"2", "0", "2", "4", "-", "0", "1", "-", "1", "5", "T", "0", "1">>
HourB == <<"2", "0", "2", "4", "-", "0", "1", "-", "1", "5", "T", "0", "2">>

\* A Fastly blob is named <service>/<file>; the file name starts with the
\* hour and ends with ".log" or not.
FastName(host, file, is_log) == [host |-> host, file |-> file, log |-> is_log]

\* Two logs of one service for the hour, and a log of the other service with
\* the file name of the first.
FastNames ==
    { FastName(ServiceA, HourA \o <<"a">>, TRUE),
      FastName(ServiceA, HourA \o <<"b">>, TRUE),
      FastName(ServiceB, HourA \o <<"a">>, TRUE) }

\* What a Fastly log may hold.
FastContents ==
    { <<>>,
      <<LogRow("2", "a"), LogRow("1", "b")>>,
      <<LogRow("1", "a"), BlankLine>> }

\* The services argument after hosts.split(",").
ServicesArgs == {<<ServiceA>>, <<ServiceA, ServiceB>>}

FastTimestamps == {HourA, HourB}

\* utils.download_logs, lines 63-64, for one host:
\* list_blobs(name_starts_with=f"{host}/{timestamp}"), in name order.
RECURSIVE FastNamesOf(_, _)
FastNamesOf(found, files) ==
    IF files = <<>> THEN <<>>
    ELSE <<CHOOSE m \in found : m.file = Head(files)>> \o FastNamesOf(found, Tail(files))

ListFastBlobs(container, host, timestamp) ==
    LET found == {m \in DOMAIN container : m.host = host /\ StartsWith(m.file, timestamp)}
    IN  FastNamesOf(found, SortedNames({m.file : m \in found}))

\* utils.download_logs, lines 72 and 77: the local file is named after the
\* part of the blob name behind the "/".
LocalLog(blob) == [file |-> blob.file, log |-> blob.log]

\* consolidator_fastly.py line 24: the files of the directory, in listing order.
RECURSIVE LogFilesOf(_, _)
LogFilesOf(dir, names) ==
    IF names = <<>> THEN <<>>
    ELSE <<LogFile(Head(names).log, dir[Head(names)])>> \o LogFilesOf(dir, Tail(names))

SourceLogs(dir) == LogFilesOf(dir, ListDir(DOMAIN dir))

IdleFast ==
    [ pc |-> "idle", timestamp |-> <<>>, services |-> <<>>, delete_source |-> FALSE,
      h |-> 0, log_list |-> <<>>, i |-> 0, temp_dir |-> EmptyDir,
      out_log |-> <<>>, calls |-> <<>>, ret |-> "none" ]

\* Line 50: the call. Nothing validates the timestamp.
FastStart(timestamp, services, delete_source) ==
    /\ fast.pc = "idle"
    /\ fast' = [fast EXCEPT !.timestamp = timestamp, !.services = services,
                            !.delete_source = delete_source,
                            !.h = 1, !.pc = "dl_list"]
    /\ UNCHANGED <<fsrc, fwritten, fdest, notFast>>

\* utils.download_logs, lines 55-69: the enumeration, one host at a time; an
\* empty list returns None and consolidate_fastly_logs returns (line 56).
FastList ==
    /\ fast.pc = "dl_list"
    /\ \E ok \in BOOLEAN :
          LET host == fast.services[fast.h]
              run == Logged(fast, "list", host, ok)
              log_list == run.log_list \o ListFastBlobs(fsrc, host, run.timestamp)
          IN  fast' =
                  IF ~ok THEN Raised(run)
                  ELSE IF run.h < Len(run.services)
                  THEN [run EXCEPT !.log_list = log_list, !.h = @ + 1]
                  ELSE IF log_list = <<>> THEN Returned(run)
                  ELSE [run EXCEPT !.log_list = log_list, !.i = 1, !.pc = "download"]
    /\ UNCHANGED <<fsrc, fwritten, fdest, notFast>>

\* utils.download_logs, lines 71-97: one blob. open(dest_path, "wb") truncates
\* the file before the download; a failed download is caught, download_logs
\* returns None and consolidate_fastly_logs returns (line 56).
FastDownload ==
    /\ fast.pc = "download"
    /\ LET blob == fast.log_list[fast.i]
           dest_path == LocalLog(blob)
       IN  \E ok \in BOOLEAN :
              /\ ok => blob \in DOMAIN fsrc
              /\ LET run == Logged(fast, "download", blob, ok)
                 IN  fast' =
                         IF ~ok
                         THEN Returned([run EXCEPT !.temp_dir = (dest_path :> <<>>) @@ @])
                         ELSE [run EXCEPT
                                  !.temp_dir = (dest_path :> fsrc[blob]) @@ @,
                                  !.i = @ + 1,
                                  !.pc = IF run.i = Len(run.log_list)
                                         THEN "consolidate" ELSE "download"]
    /\ UNCHANGED <<fsrc, fwritten, fdest, notFast>>

\* Line 58: consolidate_logfiles on the temporary directory.
FastConsolidate ==
    /\ fast.pc = "consolidate"
    /\ LET got == ConsolidateLogfiles(SourceLogs(fast.temp_dir))
       IN  fast' =
               IF got.raised THEN Raised(fast)
               ELSE [fast EXCEPT !.out_log = got.rows, !.pc = "upload"]
    /\ UNCHANGED <<fsrc, fwritten, fdest, notFast>>

\* Lines 62-63: the deletion is optional.
FastAfterUpload(run) ==
    IF run.delete_source THEN [run EXCEPT !.i = 1, !.pc = "delete"] ELSE Returned(run)

\* Line 60: utils.upload_log (overwrite=True) of the consolidated CSV, named
\* <timestamp>:00:00Z.nginx.access.csv.
FastUpload ==
    /\ fast.pc = "upload"
    /\ \E ok \in BOOLEAN :
          LET run == Logged(fast, "upload", fast.timestamp, ok)
          IN  /\ fast' = IF ok THEN FastAfterUpload(run) ELSE Raised(run)
              /\ fdest' = IF ok THEN (run.timestamp :> run.out_log) @@ fdest ELSE fdest
    /\ UNCHANGED <<fsrc, fwritten, notFast>>

\* Line 63: utils.delete_logs. The deletion goes through the list captured
\* at enumeration time, one blob at a time; a failed delete ends the run.
FastDelete ==
    /\ fast.pc = "delete"
    /\ LET blob == fast.log_list[fast.i]
       IN  \E ok \in BOOLEAN :
              /\ ok => blob \in DOMAIN fsrc
              /\ LET run == Logged(fast, "delete", blob, ok)
                 IN  /\ fast' =
                            IF ~ok THEN Raised(run)
                            ELSE IF run.i = Len(run.log_list) THEN Returned(run)
                            ELSE [run EXCEPT !.i = @ + 1]
                     /\ fsrc' = IF ok THEN Without(fsrc, blob) ELSE fsrc
    /\ UNCHANGED <<fwritten, fdest, notFast>>

\* Fastly writes a new log blob.
ProduceFast(name, content) ==
    /\ name \notin fwritten
    /\ fsrc' = (name :> content) @@ fsrc
    /\ fwritten' = fwritten \cup {name}
    /\ UNCHANGED <<fdest, fast, notFast>>


\* ------------------------- scripts/fastly_consolidate_logs.consolidate_logs
\* Line 28: the directories (services) of the script.
ScriptDirs == <<ServiceA, ServiceB>>

\* The timestamps argument: one hour, or an hour without blobs before it.
ScriptTimestamps == {<<HourA>>, <<HourB, HourA>>}

\* /tmp/blobs/<blob name> -> rows, and /tmp/csv/<timestamp>... -> rows.
EmptyTmp == [blobs |-> EmptyDir, csv |-> EmptyDir]

\* The runs of the script: two invocations of the same program on one machine.
ScriptRuns == {"s1", "s2"}

IdleScript ==
    [ pc |-> "idle", timestamps |-> <<>>, t |-> 0, d |-> 0, blobs_ts |-> <<>>,
      i |-> 0, source_logs |-> <<>>, calls |-> <<>>, ret |-> "none" ]

\* Line 23: the call.
ScriptStart(r, timestamps) ==
    /\ script[r].pc = "idle"
    /\ script' = [script EXCEPT ![r] = [@ EXCEPT !.timestamps = timestamps,
                                                 !.t = 1, !.d = 1, !.pc = "list"]]
    /\ UNCHANGED <<fsrc, fwritten, tmp, notScript>>

\* Where the loop over dirs goes after the downloads of one directory: the
\* next directory, or the consolidation (line 49).
ScriptAfterDownloads(run) ==
    IF run.d < Len(ScriptDirs)
    THEN [run EXCEPT !.d = @ + 1, !.pc = "list"]
    ELSE [run EXCEPT !.pc = "consolidate"]

\* Lines 36-42: the listing of one directory, added to blobs_ts; the download
\* loop below it (line 45) then runs over all of blobs_ts.
ScriptList(r) ==
    /\ script[r].pc = "list"
    /\ \E ok \in BOOLEAN :
          LET host == ScriptDirs[script[r].d]
              run == Logged(script[r], "list", host, ok)
              blobs_ts == run.blobs_ts
                              \o ListFastBlobs(fsrc, host, run.timestamps[run.t])
          IN  script' = [script EXCEPT ![r] =
                  IF ~ok THEN Raised(run)
                  ELSE IF blobs_ts = <<>> THEN ScriptAfterDownloads(run)
                  ELSE [run EXCEPT !.blobs_ts = blobs_ts, !.i = 1, !.pc = "download"]]
    /\ UNCHANGED <<fsrc, fwritten, tmp, notScript>>

\* Lines 14-20 and 45-47: download_blob opens the local file
\* /tmp/blobs/<blob name> for writing and downloads into it; nothing catches
\* a failure.
ScriptDownload(r) ==
    /\ script[r].pc = "download"
    /\ LET blob == script[r].blobs_ts[script[r].i]
       IN  \E ok \in BOOLEAN :
              /\ ok => blob \in DOMAIN fsrc
              /\ LET run == Logged(script[r], "download", blob, ok)
                 IN  /\ script' = [script EXCEPT ![r] =
                            IF ~ok THEN Raised(run)
                            ELSE IF run.i = Len(run.blobs_ts) THEN ScriptAfterDownloads(run)
                            ELSE [run EXCEPT !.i = @ + 1]]
                     /\ tmp' = [tmp EXCEPT !.blobs =
                                   (blob :> IF ok THEN fsrc[blob] ELSE <<>>) @@ @]
    /\ UNCHANGED <<fsrc, fwritten, notScript>>

\* Where the run goes once the local files are dealt with: the deletion of
\* the remote blobs (line 80), then the removal of the local files (line 86).
ScriptAfterConsolidate(run) ==
    IF run.blobs_ts = <<>> THEN [run EXCEPT !.pc = "remove"]
    ELSE [run EXCEPT !.i = 1, !.pc = "delete"]

\* Lines 49-77: every file below /tmp/blobs is listed (source_logs) and the
\* .log files are read; row[0] raises on a blank line. With rows, the CSV is
\* written to /tmp/csv and upload_log is called with the file object that
\* line 68 bound to out_csv, on which os.path.basename raises TypeError
\* before any remote call.
ScriptConsolidate(r) ==
    /\ script[r].pc = "consolidate"
    /\ LET source_logs == ListDir(DOMAIN tmp.blobs)
           got == KeyedRowsOfFiles(SourceLogs(tmp.blobs))
           timestamp == script[r].timestamps[script[r].t]
           run == [script[r] EXCEPT !.source_logs = source_logs]
       IN  IF got.raised
           THEN script' = [script EXCEPT ![r] = Raised(run)] /\ tmp' = tmp
           ELSE IF got.rows # <<>>
           THEN /\ script' = [script EXCEPT ![r] = Raised(run)]
                /\ tmp' = [tmp EXCEPT !.csv =
                              (timestamp :> WrittenRows(SortLoglist(got.rows))) @@ @]
           ELSE /\ script' = [script EXCEPT ![r] = ScriptAfterConsolidate(run)]
                /\ tmp' = tmp
    /\ UNCHANGED <<fsrc, fwritten, notScript>>

\* Lines 80-83: delete_blob on one blob of blobs_ts; nothing catches a failure.
ScriptDelete(r) ==
    /\ script[r].pc = "delete"
    /\ LET blob == script[r].blobs_ts[script[r].i]
       IN  \E ok \in BOOLEAN :
              /\ ok => blob \in DOMAIN fsrc
              /\ LET run == Logged(script[r], "delete", blob, ok)
                 IN  /\ script' = [script EXCEPT ![r] =
                            IF ~ok THEN Raised(run)
                            ELSE IF run.i = Len(run.blobs_ts)
                            THEN [run EXCEPT !.pc = "remove"]
                            ELSE [run EXCEPT !.i = @ + 1]]
                     /\ fsrc' = IF ok THEN Without(fsrc, blob) ELSE fsrc
    /\ UNCHANGED <<fwritten, tmp, notScript>>

\* The files of source_logs that os.remove reaches: all of them, or those
\* before the first one that is no longer there, on which it raises.
RECURSIVE Removable(_, _)
Removable(source_logs, present) ==
    IF source_logs = <<>> \/ Head(source_logs) \notin present THEN {}
    ELSE {Head(source_logs)} \cup Removable(Tail(source_logs), present)

\* Lines 86-88: os.remove of every file of source_logs; then the next
\* timestamp (line 32).
ScriptRemove(r) ==
    /\ script[r].pc = "remove"
    /\ LET run == script[r]
           removed == Removable(run.source_logs, DOMAIN tmp.blobs)
       IN  /\ tmp' = [tmp EXCEPT !.blobs =
                         [f \in DOMAIN tmp.blobs \ removed |-> tmp.blobs[f]]]
           /\ script' = [script EXCEPT ![r] =
                  IF removed # Range(run.source_logs) THEN Raised(run)
                  ELSE IF run.t < Len(run.timestamps)
                  THEN [run EXCEPT !.t = @ + 1, !.d = 1, !.blobs_ts = <<>>,
                                   !.pc = "list"]
                  ELSE Returned(run)]
    /\ UNCHANGED <<fsrc, fwritten, notScript>>


\* ------------------------------------------------- logfile_clean.delete_logs
\* Blobs the swept container may hold.
MaxSweepBlobs == 2

ExtJson == <<"j", "s", "o", "n">>
ExtLog == <<"l", "o", "g">>

\* str.endswith
EndsWith(s, suffix) ==
    /\ Len(suffix) <= Len(s)
    /\ SubSeq(s, Len(s) - Len(suffix) + 1, Len(s)) = suffix

\* Time is counted in half days: midnight of day n is instant 2n, its noon 2n+1.
Midnight(day) == 2 * day

\* A variant whose cutoff is a day late.
Cutoff_DayLate(today, days) == Midnight(today - days + 1)

\* Line 25-26: midnight of the day `days` days before today (the date and the
\* midnight are those of the host's local time zone; astimezone keeps the instant).
Cutoff(today, days) == Midnight(today - days)

\* The properties of one blob: its name and its creation time.
SweepBlob(id, ext, created) ==
    [name |-> <<CHOOSE c \in Digits : DigitVal(c) = id, ".">> \o ext, creation_time |-> created]

\* Blobs created the noon before, at and the noon after midnight of day 2.
SweepBlobsOf(id) == {SweepBlob(id, ext, t) : ext \in {ExtJson, ExtLog}, t \in {3, 4, 5}}

SweepIds == 1..MaxSweepBlobs

\* Line 28: the blobs older than the cutoff whose name ends with the extension,
\* in listing (name) order.
RECURSIVE Selected(_, _, _, _)
Selected(blob_list, ids, dt, extension) ==
    IF ids = {} THEN <<>>
    ELSE LET id == CHOOSE x \in ids : \A y \in ids : x <= y
             rest == Selected(blob_list, ids \ {id}, dt, extension)
         IN  IF blob_list[id].creation_time < dt /\ EndsWith(blob_list[id].name, extension)
             THEN <<id>> \o rest
             ELSE rest

IdleSweep ==
    [ pc |-> "idle", today |-> 0, days |-> 0, extension |-> <<>>, dry_run |-> FALSE,
      blob_list |-> EmptyDir, log_list |-> <<>>, i |-> 0, calls |-> <<>>, ret |-> "none" ]

\* Line 21: the call, on some day.
SweepStart(today, days, extension, dry_run) ==
    /\ sweep.pc = "idle"
    /\ sweep' = [sweep EXCEPT !.today = today, !.days = days, !.extension = extension,
                              !.dry_run = dry_run, !.pc = "list"]
    /\ UNCHANGED <<blobs, notSweep>>

\* Lines 22-28: the listing and the selection.
SweepList ==
    /\ sweep.pc = "list"
    /\ \E ok \in BOOLEAN :
          LET run == Logged(sweep, "list", <<>>, ok)
              log_list == Selected(blobs, DOMAIN blobs, Cutoff(run.today, run.days),
                                   run.extension)
          IN  sweep' =
                  IF ~ok THEN Raised(run)
                  ELSE IF log_list = <<>> THEN Returned([run EXCEPT !.blob_list = blobs])
                  ELSE [run EXCEPT !.blob_list = blobs, !.log_list = log_list,
                                   !.i = 1, !.pc = "loop"]
    /\ UNCHANGED <<blobs, notSweep>>

\* A variant that deletes in a dry run too.
IssuesDelete_Always(run) == TRUE

\* Line 32: a dry run only logs.
IssuesDelete(run) == ~run.dry_run

\* Line 36: delete_blob is not guarded; an exception leaves delete_logs.
AfterFailedDelete(run) == Raised(run)

NextBlob(run) ==
    IF run.i = Len(run.log_list) THEN Returned(run) ELSE [run EXCEPT !.i = @ + 1]

\* Lines 30-36: one turn of the loop.
SweepDelete ==
    /\ sweep.pc = "loop"
    /\ LET id == sweep.log_list[sweep.i]
       IN  IF ~IssuesDelete(sweep)
           THEN /\ sweep' = NextBlob(sweep)
                /\ blobs' = blobs
           ELSE \E ok \in BOOLEAN :
                   /\ ok => id \in DOMAIN blobs
                   /\ LET run == Logged(sweep, "delete", id, ok)
                      IN  /\ sweep' = IF ok THEN NextBlob(run) ELSE AfterFailedDelete(run)
                          /\ blobs' = IF ok THEN Without(blobs, id) ELSE blobs
    /\ UNCHANGED notSweep

\* --------------------------- scripts/fastly_delete_blobs.mass_delete_blobs
\* Line 25: the prefixes, in loop order.
MassPrefixes == <<ServiceA, ServiceB>>

\* Line 31: the number of worker processes of a pool.
PoolSize == 8

\* Line 32: the number of blobs of one task of the pool.
ChunkSize == 10

\* The most blobs one prefix holds: more than one task's worth.
MaxMassBlobs == 11

\* The most blobs the second prefix holds.
MaxOtherBlobs == 1

\* A Fastly log blob is named <prefix>/<timestamp>...: the listing order is
\* the order of the timestamps, which the model keeps as a number.
MassBlob(prefix, id) == [prefix |-> prefix, id |-> id]

\* The blobs of one prefix: n of them, the first `old` created at instant 1
\* and the later ones at instant 3.
BlobsCreated(prefix, n, old) ==
    [b \in {MassBlob(prefix, id) : id \in 1..n} |-> IF b.id <= old THEN 1 ELSE 3]

\* The members of a set of blobs of one prefix in listing order.
RECURSIVE InListingOrder(_)
InListingOrder(S) ==
    IF S = {} THEN <<>>
    ELSE LET b == CHOOSE x \in S : \A y \in S : x.id <= y.id
         IN  <<b>> \o InListingOrder(S \ {b})

\* Line 27: list_blobs(name_starts_with=prefix), as name -> creation time.
MassListing(container, prefix) ==
    [b \in {x \in DOMAIN container : x.prefix = prefix} |-> container[b]]

\* Line 28: the names whose creation time is earlier than older_than.
MassSelected(blob_list, older_than) ==
    InListingOrder({b \in DOMAIN blob_list : blob_list[b] < older_than})

\* A task of the pool: chunksize consecutive items of the iterable, which one
\* worker maps delete_blob over.
Task(items) == [items |-> items, i |-> 1, worker |-> 0, state |-> "queued"]

\* imap_unordered(delete_blob, log_list, chunksize): the tasks, in order.
RECURSIVE Chunks(_, _)
Chunks(log_list, chunksize) ==
    IF log_list = <<>> THEN <<>>
    ELSE IF Len(log_list) <= chunksize THEN <<Task(log_list)>>
    ELSE <<Task(SubSeq(log_list, 1, chunksize))>>
             \o Chunks(SubSeq(log_list, chunksize + 1, Len(log_list)), chunksize)

\* One call of a worker, or of the parent (worker 0).
WorkerCall(worker, op, blob, ok) ==
    [op |-> op, blob |-> blob, ok |-> ok, worker |-> worker]

IdleMass ==
    [ pc |-> "idle", older_than |-> 0, p |-> 0, blob_lists |-> <<>>,
      log_list |-> <<>>, tasks |-> <<>>, calls |-> <<>>, ret |-> "none" ]

\* Line 20: the call.
MassStart(older_than) ==
    /\ mass.pc = "idle"
    /\ mass' = [mass EXCEPT !.older_than = older_than, !.p = 1, !.pc = "list"]
    /\ UNCHANGED <<fblobs, notMass>>

\* Lines 25-33: the listing and the selection of one prefix, a new pool, the
\* tasks handed to it, and close(). A failed listing leaves the function.
MassList ==
    /\ mass.pc = "list"
    /\ \E ok \in BOOLEAN :
          LET prefix == MassPrefixes[mass.p]
              run == [mass EXCEPT !.calls = Append(@, WorkerCall(0, "list", prefix, ok))]
              blob_list == MassListing(fblobs, prefix)
              log_list == MassSelected(blob_list, run.older_than)
          IN  mass' =
                  IF ~ok THEN Raised(run)
                  ELSE [run EXCEPT !.blob_lists = Append(@, blob_list),
                                   !.log_list = log_list,
                                   !.tasks = Chunks(log_list, ChunkSize),
                                   !.pc = "pool"]
    /\ UNCHANGED <<fblobs, notMass>>

\* The workers that are mapping a task.
Busy(run) ==
    {run.tasks[k].worker : k \in {j \in 1..Len(run.tasks) : run.tasks[j].state = "running"}}

\* A worker without a task takes the first task of the queue.
WorkerTake(w) ==
    /\ mass.pc = "pool"
    /\ w \notin Busy(mass)
    /\ \E k \in 1..Len(mass.tasks) :
          /\ mass.tasks[k].state = "queued"
          /\ \A j \in 1..(k - 1) : mass.tasks[j].state # "queued"
          /\ mass' = [mass EXCEPT !.tasks[k].worker = w, !.tasks[k].state = "running"]
    /\ UNCHANGED <<fblobs, notMass>>

\* Lines 13-17, inside the worker's map over its task: delete_blob on the
\* next item. The blob is deleted when it exists. An exception (of exists or
\* of delete_blob) ends the map: the task's result is the exception, which
\* nothing reads, and the items behind the failing one are not called.
WorkerDelete(w) ==
    /\ mass.pc = "pool"
    /\ \E k \in 1..Len(mass.tasks) :
          /\ mass.tasks[k].state = "running"
          /\ mass.tasks[k].worker = w
          /\ LET task == mass.tasks[k]
                 blob == task.items[task.i]
             IN  \E ok \in BOOLEAN :
                    /\ mass' = [mass EXCEPT
                           !.calls = Append(@, WorkerCall(w, "delete", blob, ok)),
                           !.tasks[k] =
                               IF ~ok THEN [task EXCEPT !.state = "failed"]
                               ELSE IF task.i = Len(task.items)
                               THEN [task EXCEPT !.state = "done"]
                               ELSE [task EXCEPT !.i = @ + 1]]
                    /\ fblobs' = IF ok /\ blob \in DOMAIN fblobs
                                 THEN Without(fblobs, blob) ELSE fblobs
    /\ UNCHANGED notMass

\* Line 34: join() returns once every task has ended; then the next prefix
\* (line 25), or the return.
MassJoin ==
    /\ mass.pc = "pool"
    /\ \A k \in 1..Len(mass.tasks) : mass.tasks[k].state \in {"done", "failed"}
    /\ mass' = IF mass.p < Len(MassPrefixes)
               THEN [mass EXCEPT !.p = @ + 1, !.pc = "list"]
               ELSE Returned(mass)
    /\ UNCHANGED <<fblobs, notMass>>

\* ------------------------------------------------------- the specifications
QuietArch ==
    /\ src = EmptyDir
    /\ written = {}
    /\ archive = EmptyDir
    /\ arch = [r \in Runs |-> [IdleRun EXCEPT !.pc = "off"]]

QuietJson ==
    /\ jsrc = EmptyDir
    /\ jwritten = {}
    /\ jdest = EmptyDir
    /\ cons = [IdleCons EXCEPT !.pc = "off"]

QuietParse == parse = [ParseIdle EXCEPT !.done = TRUE]

QuietLogfiles == logfiles = [LogfilesIdle EXCEPT !.done = TRUE]

QuietPure == QuietParse /\ QuietLogfiles

QuietFast ==
    /\ fsrc = EmptyDir
    /\ fwritten = {}
    /\ fdest = EmptyDir
    /\ fast = [IdleFast EXCEPT !.pc = "off"]

QuietScript ==
    /\ tmp = EmptyTmp
    /\ script = [r \in ScriptRuns |-> [IdleScript EXCEPT !.pc = "off"]]

QuietSweep ==
    /\ blobs = EmptyDir
    /\ sweep = [IdleSweep EXCEPT !.pc = "off"]

QuietMass ==
    /\ fblobs = EmptyDir
    /\ mass = [IdleMass EXCEPT !.pc = "off"]

InitArchive ==
    /\ \E S \in SUBSET CsvNames : src \in [S -> CsvContents]
    /\ written = DOMAIN src
    /\ archive = EmptyDir
    /\ arch = [r \in Runs |-> IF r = "r1" THEN IdleRun ELSE [IdleRun EXCEPT !.pc = "off"]]
    /\ QuietJson /\ QuietPure /\ QuietFast /\ QuietScript /\ QuietSweep /\ QuietMass

NextArchive ==
    \/ \E r \in Runs, d \in Datestamps, del \in BOOLEAN : ArchiveStart(r, d, del)
    \/ \E r \in Runs : ArchiveList(r)
    \/ \E r \in Runs : DownloadList(r)
    \/ \E r \in Runs : Download(r)
    \/ \E r \in Runs : Load(r)
    \/ \E r \in Runs : Upload(r)
    \/ \E r \in Runs : SetTier(r)
    \/ \E r \in Runs : Delete(r)
    \/ \E n \in CsvNames, c \in CsvContents : Produce(n, c)

SpecArchive == InitArchive /\ [][NextArchive]_vars

\* The source blob of one hour of DayA: its name, and rows whose timestamps
\* lie in that hour, so that the rows of two blobs differ.
HourlyName(h) == DayA \o HourOf(h)
HourlyRows(h) == <<CsvRow(2 * h - 1), CsvRow(2 * h)>>

\* Two runs of archive_logs for DayA with delete_source set, started at any
\* time, while the log producer writes the hourly blobs of that day.
InitArchives ==
    /\ \E H \in SUBSET (1..MaxBlobs) :
          src = [n \in {HourlyName(h) : h \in H} |->
                    HourlyRows(CHOOSE h \in H : HourlyName(h) = n)]
    /\ written = DOMAIN src
    /\ archive = EmptyDir
    /\ arch = [r \in Runs |-> IdleRun]
    /\ QuietJson /\ QuietPure /\ QuietFast /\ QuietScript /\ QuietSweep /\ QuietMass

NextArchives ==
    \/ \E r \in Runs : ArchiveStart(r, DayA, TRUE)
    \/ \E r \in Runs : ArchiveList(r)
    \/ \E r \in Runs : DownloadList(r)
    \/ \E r \in Runs : Download(r)
    \/ \E r \in Runs : Load(r)
    \/ \E r \in Runs : Upload(r)
    \/ \E r \in Runs : SetTier(r)
    \/ \E r \in Runs : Delete(r)
    \/ \E h \in 1..MaxBlobs : Produce(HourlyName(h), HourlyRows(h))

SpecArchives == InitArchives /\ [][NextArchives]_vars

\* A consolidated CSV of an earlier run, already in the container access-logs.
EarlierCsv ==
    [datestamp |-> DayA \o HourOf(1), kind |-> AccessCsv]
        :> <<AccessRow(AccessRecord("1", Ok200))>>

InitJson ==
    /\ \E S \in SUBSET JsonNames : jsrc \in [S -> JsonContents]
    /\ jwritten = DOMAIN jsrc
    /\ jdest \in {EmptyDir, EarlierCsv}
    /\ cons = IdleCons
    /\ QuietArch /\ QuietPure /\ QuietFast /\ QuietScript /\ QuietSweep /\ QuietMass

NextJson ==
    \/ \E d \in JsonDatestamps, hs \in HostsArgs, del \in BOOLEAN : ConsStart(d, hs, del)
    \/ DownloadJsonList
    \/ DownloadJson
    \/ ConsolidateAccess
    \/ UploadAccess
    \/ ConsolidateErrors
    \/ UploadErrors
    \/ DeleteJsonList
    \/ DeleteJson
    \/ \E n \in JsonNames, c \in JsonContents : ProduceJson(n, c)

SpecJson == InitJson /\ [][NextJson]_vars

\* The downloaded files of a pure run: one file of up to MaxLines lines, and
\* possibly a second one with a valid access request.
\* Likewise for consolidate_logfiles: one .log file of up to MaxLines rows, and
\* possibly a second file, a .log file or one of another ending.
InitParse ==
    /\ \/ /\ \E f \in SeqsUpTo(JsonLines, MaxLines) :
                \E others \in {<<>>, <<<<JsonLine(AccessRecord("1", Ok200))>>>>} :
                    parse = [ParseIdle EXCEPT !.files = <<f>> \o others]
          /\ QuietLogfiles
       \/ /\ \E rows \in SeqsUpTo(LogRows, MaxLines) :
                \E others \in {<<>>, <<LogFile(TRUE, <<LogRow("1", "a")>>)>>,
                                <<LogFile(FALSE, <<LogRow("0", "a")>>)>>} :
                    logfiles = [LogfilesIdle EXCEPT !.files = <<LogFile(TRUE, rows)>> \o others]
          /\ QuietParse
    /\ QuietArch /\ QuietJson /\ QuietFast /\ QuietScript /\ QuietSweep /\ QuietMass

NextParse == ParseAccess \/ ParseLogfiles

SpecParse == InitParse /\ [][NextParse]_vars

InitFastly ==
    /\ \E S \in SUBSET FastNames : fsrc \in [S -> FastContents]
    /\ fwritten = DOMAIN fsrc
    /\ fdest = EmptyDir
    /\ fast = IdleFast
    /\ QuietArch /\ QuietJson /\ QuietPure /\ QuietScript /\ QuietSweep /\ QuietMass

NextFastly ==
    \/ \E t \in FastTimestamps, sv \in ServicesArgs, del \in BOOLEAN : FastStart(t, sv, del)
    \/ FastList
    \/ FastDownload
    \/ FastConsolidate
    \/ FastUpload
    \/ FastDelete
    \/ \E n \in FastNames, c \in FastContents : ProduceFast(n, c)

SpecFastly == InitFastly /\ [][NextFastly]_vars

\* The script works on the container of consolidate_fastly_logs, with its
\* local directories empty at first.
InitScript ==
    /\ \E S \in SUBSET FastNames : fsrc \in [S -> FastContents]
    /\ fwritten = DOMAIN fsrc
    /\ fdest = EmptyDir
    /\ fast = [IdleFast EXCEPT !.pc = "off"]
    /\ tmp = EmptyTmp
    /\ script = [r \in ScriptRuns |->
                     IF r = "s1" THEN IdleScript ELSE [IdleScript EXCEPT !.pc = "off"]]
    /\ QuietArch /\ QuietJson /\ QuietPure /\ QuietSweep /\ QuietMass

NextScript ==
    \/ \E ts \in ScriptTimestamps : ScriptStart("s1", ts)
    \/ ScriptList("s1")
    \/ ScriptDownload("s1")
    \/ ScriptConsolidate("s1")
    \/ ScriptDelete("s1")
    \/ ScriptRemove("s1")
    \/ \E n \in FastNames, c \in FastContents : ProduceFast(n, c)

SpecScript == InitScript /\ [][NextScript]_vars

\* Two invocations of the script on one machine, started at any time.
InitScripts ==
    /\ \E S \in SUBSET FastNames : fsrc \in [S -> FastContents]
    /\ fwritten = DOMAIN fsrc
    /\ fdest = EmptyDir
    /\ fast = [IdleFast EXCEPT !.pc = "off"]
    /\ tmp = EmptyTmp
    /\ script = [r \in ScriptRuns |-> IdleScript]
    /\ QuietArch /\ QuietJson /\ QuietPure /\ QuietSweep /\ QuietMass

NextScripts ==
    \E r \in ScriptRuns :
        \/ \E ts \in ScriptTimestamps : ScriptStart(r, ts)
        \/ ScriptList(r)
        \/ ScriptDownload(r)
        \/ ScriptConsolidate(r)
        \/ ScriptDelete(r)
        \/ ScriptRemove(r)

SpecScripts == InitScripts /\ [][NextScripts]_vars

\* The bulk deletion on a container whose prefixes hold some blobs, the
\* older ones first; older_than is instant 2.
InitMass ==
    /\ \E n \in 0..MaxMassBlobs, m \in 0..MaxOtherBlobs :
          \E old \in 0..n, older \in 0..m :
              fblobs = BlobsCreated(ServiceA, n, old) @@ BlobsCreated(ServiceB, m, older)
    /\ mass = IdleMass
    /\ QuietArch /\ QuietJson /\ QuietPure /\ QuietFast /\ QuietScript /\ QuietSweep

NextMass ==
    \/ MassStart(2)
    \/ MassList
    \/ \E w \in 1..PoolSize : WorkerTake(w)
    \/ \E w \in 1..PoolSize : WorkerDelete(w)
    \/ MassJoin

SpecMass == InitMass /\ [][NextMass]_vars

\* The three pipelines that take delete_source, one of them running.
InitPipelines == InitArchive \/ InitJson \/ InitFastly

\* Only the containers of the running pipeline are written to.
NextPipelines ==
    \/ arch["r1"].pc # "off" /\ NextArchive
    \/ cons.pc # "off" /\ NextJson
    \/ fast.pc # "off" /\ NextFastly

SpecPipelines == InitPipelines /\ [][NextPipelines]_vars

InitSweep ==
    /\ \E S \in SUBSET SweepIds :
          blobs \in {f \in [S -> UNION {SweepBlobsOf(id) : id \in S}] :
                        \A id \in S : f[id] \in SweepBlobsOf(id)}
    /\ sweep = IdleSweep
    /\ QuietArch /\ QuietJson /\ QuietPure /\ QuietFast /\ QuietScript /\ QuietMass

NextSweep ==
    \/ \E days \in {0, 1}, ext \in {ExtJson, ExtLog}, dry \in BOOLEAN :
          SweepStart(3, days, ext, dry)
    \/ SweepList
    \/ SweepDelete

SpecSweep == InitSweep /\ [][NextSweep]_vars


\* ------------------------------------------------ consolidate_logs: claims
DeletedBy(run) == {run.calls[i].blob : i \in OkCallsOf(run, "delete")}

\* C2: a run of consolidate_logs in which a download failed uploads no CSV
\* (access or errors) and issues no delete; every JSON blob written so far is
\* still in its container.
C2_FailedJsonDownloadNoUpload ==
    FailedCallsOf(cons, "download") # {} =>
        /\ CallsOf(cons, "upload") = {}
        /\ CallsOf(cons, "delete") = {}
        /\ DOMAIN jsrc = jwritten

\* C5: every delete call of consolidate_logs names a blob of the list
\* download_json_logs enumerated, and a run that returned after deleting
\* without a failure has deleted exactly that list.
C5_DeletesExactlyDownloaded ==
    /\ \A i \in CallsOf(cons, "delete") : cons.calls[i].blob \in Range(cons.json_blobs)
    /\ ( /\ cons.ret = "returned"
         /\ cons.delete_source
         /\ \A i \in 1..Len(cons.calls) : cons.calls[i].ok )
       => DeletedBy(cons) = Range(cons.json_blobs)

\* C6: when the enumeration of download_json_logs is empty, consolidate_logs
\* uploads nothing, deletes nothing and leaves the container access-logs as it
\* was (empty, or holding the CSV of an earlier run).
C6_EmptyEnumerationNoOp ==
    (cons.pc \notin {"off", "idle", "dl_list"} /\ cons.json_blobs = <<>>) =>
        /\ CallsOf(cons, "upload") = {}
        /\ CallsOf(cons, "delete") = {}
        /\ jdest \in {EmptyDir, EarlierCsv}

\* The access requests of a list of files that are well formed: an object
\* from stdout without "log", with every canonical field and numeric status,
\* request_time and bytes_sent.
IsValidAccess(line) ==
    /\ line.parse = "dict"
    /\ "source" \in DOMAIN line.d
    /\ line.d.source = "stdout"
    /\ "log" \notin DOMAIN line.d
    /\ AccessRowOk(line.d)

RECURSIVE ValidAccessRows(_)
ValidAccessRows(files) ==
    IF files = <<>> THEN <<>>
    ELSE LET valid == SelectSeq(Head(files), IsValidAccess)
         IN  [i \in 1..Len(valid) |-> AccessRow(valid[i].d)]
                 \o ValidAccessRows(Tail(files))

\* C9: consolidate_json_access_requests never aborts on a malformed record:
\* its output holds every well-formed access request of every file.
C9_MalformedRecordIsolated ==
    (parse.done /\ parse.files # <<>>) =>
        /\ ~parse.out.raised
        /\ parse.out.rows = Sorted(ValidAccessRows(parse.files))

\* ----------------------------------------------------- delete_logs: claims
\* C7: a run of the sweeper that is no dry run and has ended after its listing
\* has called delete on every selected blob, whether or not a delete failed.
C7_DeletesIndependent ==
    (sweep.pc = "done" /\ ~sweep.dry_run /\ OkCallsOf(sweep, "list") # {}) =>
        \A id \in Range(sweep.log_list) :
            \E i \in CallsOf(sweep, "delete") : sweep.calls[i].blob = id

\* C8: a dry run issues no delete call, and the container is as the listing
\* found it.
C8_DryRunDeletesNothing ==
    sweep.dry_run =>
        /\ CallsOf(sweep, "delete") = {}
        /\ OkCallsOf(sweep, "list") # {} => blobs = sweep.blob_list

\* C8 witness: a dry run that selected two blobs has ended.
C8_Witness ==
    /\ sweep.dry_run
    /\ sweep.pc = "done"
    /\ Len(sweep.log_list) >= 2


\* ------------------------------------------- consolidated CSV: row order
TimestampsAscend(rows) ==
    \A i \in 1..(Len(rows) - 1) : ~StrLess(rows[i + 1][1], rows[i][1])

\* C11: the rows consolidate_json_access_requests and consolidate_logfiles
\* write are in non-decreasing order of their timestamp (first) field.
C11_RowsInTimestampOrder ==
    /\ (parse.done /\ ~parse.out.raised) => TimestampsAscend(parse.out.rows)
    /\ (logfiles.done /\ ~logfiles.out.raised) => TimestampsAscend(logfiles.out.rows)

\* C11 witness: consolidate_logfiles read two .log files, the first with a
\* later timestamp before an earlier one, and wrote the three rows.
C11_Witness ==
    /\ logfiles.done
    /\ Len(logfiles.files) = 2
    /\ logfiles.files[2].log
    /\ Len(logfiles.files[1].rows) = 2
    /\ \A j \in 1..2 : Len(logfiles.files[1].rows[j]) = CanonicalCols
    /\ StrLess(logfiles.files[1].rows[2][1], logfiles.files[1].rows[1][1])
    /\ Len(logfiles.out.rows) = 3

\* A stable sort on the timestamp alone: a row goes behind every row whose
\* timestamp is not later than its own.
RECURSIVE InsertByTimestamp(_, _)
InsertByTimestamp(sorted, row) ==
    IF sorted = <<>> THEN <<row>>
    ELSE IF StrLess(row[1], Head(sorted)[1]) THEN <<row>> \o sorted
    ELSE <<Head(sorted)>> \o InsertByTimestamp(Tail(sorted), row)

RECURSIVE StableByTimestamp(_)
StableByTimestamp(rows) ==
    IF rows = <<>> THEN <<>>
    ELSE InsertByTimestamp(StableByTimestamp(SubSeq(rows, 1, Len(rows) - 1)),
                           rows[Len(rows)])

\* The 12-field rows of the .log files, in the order they were read.
LogRowsAsRead(files) == WrittenRows(KeyedRowsOfFiles(files).rows)

\* C12: in the output, rows with equal timestamps keep the order in which they
\* were read: the output is the stable timestamp sort of the rows as read.
C12_StableOnTimestamp ==
    /\ (parse.done /\ ~parse.out.raised) =>
          parse.out.rows = StableByTimestamp(AccessRowsOfFiles(parse.files).rows)
    /\ (logfiles.done /\ ~logfiles.out.raised) =>
          logfiles.out.rows = StableByTimestamp(LogRowsAsRead(logfiles.files))

\* The number of rows of 12 fields in the .log files.
RECURSIVE CountCanonical(_)
CountCanonical(files) ==
    IF files = <<>> THEN 0
    ELSE (IF Head(files).log
          THEN Len(SelectSeq(Head(files).rows, LAMBDA row : Len(row) = CanonicalCols))
          ELSE 0) + CountCanonical(Tail(files))

\* C15: consolidate_logfiles ends without raising, every row it writes has 12
\* fields, and it writes as many rows as the .log files hold rows of 12 fields.
C15_OnlyCanonicalRows ==
    logfiles.done /\ logfiles.files # <<>> =>
        /\ ~logfiles.out.raised
        /\ \A i \in 1..Len(logfiles.out.rows) : Len(logfiles.out.rows[i]) = CanonicalCols
        /\ Len(logfiles.out.rows) = CountCanonical(logfiles.files)

\* --------------------------------------------- archive_logs: the artifact
\* C13: the rows of every uploaded artifact are in ascending timestamp order.
C13_ArtifactSorted ==
    \A d \in DOMAIN archive :
        \A i \in 1..(Len(archive[d].rows) - 1) :
            archive[d].rows[i].ts <= archive[d].rows[i + 1].ts

\* C14: a run that downloaded every blob, met no failing remote call, no
\* malformed row and no schema mismatch, and found at least one file empty,
\* returns having uploaded an artifact that holds the rows of the other files.
C14_EmptyFilesAreNoError ==
    \A r \in Runs :
        LET run == arch[r] IN
        ( /\ run.pc = "done"
          /\ Len(run.dl_blobs) >= 1
          /\ Cardinality(OkCallsOf(run, "download")) = Len(run.dl_blobs)
          /\ \A i \in 1..Len(run.calls) : run.calls[i].ok
          /\ run.same_schema
          /\ ~HasMalformedRow(run.csv_dir)
          /\ \E n \in DOMAIN run.csv_dir : run.csv_dir[n] = <<>> )
        => /\ run.ret = "returned"
           /\ run.datestamp \in DOMAIN archive
           /\ archive[run.datestamp].rows =
                  ValidRows(run.csv_dir, SortedNames(DOMAIN run.csv_dir))

\* ------------------------------------------------ the window key: claims
\* C16: a run of archive_logs whose datestamp parses under %Y%m%d goes on to
\* the enumeration (its first remote call is the list call); a run with any
\* other datestamp has returned without a single remote call.
C16_DatestampValidated ==
    \A r \in Runs :
        LET run == arch[r] IN
        run.pc \notin {"off", "idle"} =>
            IF StrptimeOk(run.datestamp)
            THEN \/ run.pc = "list" /\ run.calls = <<>>
                 \/ Len(run.calls) >= 1 /\ run.calls[1].op = "list"
            ELSE /\ run.pc = "done"
                 /\ run.ret = "returned"
                 /\ run.calls = <<>>

\* C16 witness: a run with delete_source and a malformed datestamp has ended
\* while the container holds source blobs.
C16_Witness ==
    \E r \in Runs :
        /\ arch[r].pc = "done"
        /\ arch[r].delete_source
        /\ ~StrptimeOk(arch[r].datestamp)
        /\ Len(arch[r].datestamp) >= 1
        /\ DOMAIN src # {}

\* C17: a run of consolidate_logs whose key is neither a date (YYYYmmdd) nor a
\* date-hour (YYYYmmddHH) ends at once, without a single remote call.
C17_KeyValidatedFirst ==
    LET IsDate(s) == Len(s) = 8 /\ AllDigits(s) /\ StrptimeOk(s)
        IsDateHour(s) ==
            /\ Len(s) = 10
            /\ AllDigits(s)
            /\ StrptimeOk(SubSeq(s, 1, 8))
            /\ Num(SubSeq(s, 9, 10)) \in 0..23
    IN  ( /\ cons.pc \notin {"off", "idle"}
          /\ ~IsDate(cons.datestamp)
          /\ ~IsDateHour(cons.datestamp) )
        => /\ cons.pc = "done"
           /\ cons.calls = <<>>

\* ------------------------------------------------- delete_source: claims
\* C18: a run of archive_logs, consolidate_logs or consolidate_fastly_logs
\* without delete_source issues no delete call, and while no run has the flag
\* every source blob written so far is still in its container.
C18_DeleteGatedByFlag ==
    /\ \A r \in Runs : ~arch[r].delete_source => CallsOf(arch[r], "delete") = {}
    /\ (\A r \in Runs : ~arch[r].delete_source) => DOMAIN src = written
    /\ ~cons.delete_source => (CallsOf(cons, "delete") = {} /\ DOMAIN jsrc = jwritten)
    /\ ~fast.delete_source => (CallsOf(fast, "delete") = {} /\ DOMAIN fsrc = fwritten)

\* C18 witness: a run of consolidate_logs without delete_source has uploaded
\* both CSVs and returned, with source blobs enumerated.
C18_Witness ==
    /\ cons.ret = "returned"
    /\ ~cons.delete_source
    /\ Cardinality(OkCallsOf(cons, "upload")) = 2
    /\ Len(cons.json_blobs) >= 1

\* C19: every delete call of the sweeper names a listed blob created strictly
\* before midnight of (today - days) whose name ends with the extension, and a
\* run that is no dry run and returned has left in the container exactly the
\* listed blobs created at or after that midnight or with another ending.
C19_DeletesExactlyOldMatching ==
    LET IsOld(id) == sweep.blob_list[id].creation_time < 2 * (sweep.today - sweep.days)
        Matches(id) == EndsWith(sweep.blob_list[id].name, sweep.extension)
    IN  /\ \A i \in CallsOf(sweep, "delete") :
              /\ sweep.calls[i].blob \in DOMAIN sweep.blob_list
              /\ IsOld(sweep.calls[i].blob)
              /\ Matches(sweep.calls[i].blob)
        /\ (sweep.ret = "returned" /\ ~sweep.dry_run) =>
              DOMAIN blobs = {id \in DOMAIN sweep.blob_list : ~(IsOld(id) /\ Matches(id))}

\* C19 witness: a run that is no dry run returned after a delete, and a blob
\* with the extension, created exactly at the cutoff, is still there.
C19_Witness ==
    /\ sweep.ret = "returned"
    /\ ~sweep.dry_run
    /\ OkCallsOf(sweep, "delete") # {}
    /\ \E id \in DOMAIN blobs :
          /\ blobs[id].creation_time = 2 * (sweep.today - sweep.days)
          /\ EndsWith(blobs[id].name, sweep.extension)

\* ------------------------------------------------------- scratch: claims
\* C20: once a run of the script's consolidate_logs has ended, by return or by
\* exception, no downloaded file is left below /tmp/blobs and no generated
\* CSV below /tmp/csv.
C20_ScratchCleanedOnExit ==
    script["s1"].pc = "done" => tmp = EmptyTmp

\* ----------------------------------------------------- downloads: claims
\* download_json_logs returned True: the run consolidates after a download
\* of the last enumerated blob that did not fail.
JsonDownloaded(run) ==
    /\ run.pc = "access"
    /\ run.calls # <<>>
    /\ run.calls[Len(run.calls)].op = "download"
    /\ run.calls[Len(run.calls)].ok

\* C23: after download_json_logs returned True, the temporary directory
\* holds one file per enumerated blob, and the file a blob was written to
\* holds the content of that blob.
C23_EveryBlobKeepsItsFile ==
    JsonDownloaded(cons) =>
        /\ Cardinality(DOMAIN cons.temp_dir) = Len(cons.json_blobs)
        /\ \A i \in 1..Len(cons.json_blobs) :
              LET blob == cons.json_blobs[i]
              IN  blob \in DOMAIN jsrc =>
                      cons.temp_dir[LocalJson(blob.host)] = jsrc[blob]

\* A run that has been called and has not ended.
Executing(run) == run.pc \notin {"off", "idle", "done"}

\* The files below /tmp/blobs a run has opened for writing (lines 16, 46),
\* and those it has listed to read and remove (lines 51-53, 58, 88).
Touched(run) ==
    {run.calls[i].blob : i \in CallsOf(run, "download")} \cup Range(run.source_logs)

\* C21: two runs of the script's consolidate_logs that execute at the same
\* time have no file of the scratch directory in common: no file written,
\* read or removed by one is written, read or removed by the other.
C21_ScratchExclusive ==
    \A a, b \in ScriptRuns :
        (a # b /\ Executing(script[a]) /\ Executing(script[b])) =>
            Touched(script[a]) \cap Touched(script[b]) = {}

\* ------------------------------------------------ archive_logs: two runs
\* C22: the rows of every source blob of DayA that was written and is no
\* longer in the container (only the deletion loop of archive_logs removes
\* one) are in the blob archive/<DayA>.nginx.access.parquet, at every moment
\* after the deletion, whatever was uploaded since.
C22_NoArchivedRecordLost ==
    \A h \in 1..MaxBlobs :
        (HourlyName(h) \in written /\ HourlyName(h) \notin DOMAIN src) =>
            /\ DayA \in DOMAIN archive
            /\ Range(HourlyRows(h)) \subseteq Range(archive[DayA].rows)

\* ------------------------------------------------ mass_delete_blobs: claims
\* The blobs the run selected, over the prefixes listed so far.
SelectedBy(run) ==
    UNION {{b \in DOMAIN run.blob_lists[p] : run.blob_lists[p][b] < run.older_than} :
               p \in 1..Len(run.blob_lists)}

\* The blobs the run listed and did not select.
UnselectedBy(run) ==
    UNION {{b \in DOMAIN run.blob_lists[p] : run.blob_lists[p][b] >= run.older_than} :
               p \in 1..Len(run.blob_lists)}

\* No blob is handed to two workers, or twice to one.
OneWorkerPerBlob ==
    \A i, j \in CallsOf(mass, "delete") :
        mass.calls[i].blob = mass.calls[j].blob => i = j

\* Every delete on a blob of the first prefix comes before the listing of
\* the second.
PrefixesInTurn ==
    \A i \in CallsOf(mass, "delete"), j \in CallsOf(mass, "list") :
        (mass.calls[i].blob.prefix = MassPrefixes[1] /\ mass.calls[j].blob = MassPrefixes[2])
            => i < j

\* Only selected blobs are deleted.
OnlySelectedDeleted ==
    /\ \A i \in CallsOf(mass, "delete") : mass.calls[i].blob \in SelectedBy(mass)
    /\ UnselectedBy(mass) \subseteq DOMAIN fblobs

\* Once the function has returned, delete_blob has been called on every
\* selected blob, whatever calls failed.
EverySelectedAttempted ==
    mass.ret = "returned" =>
        \A b \in SelectedBy(mass) : \E i \in CallsOf(mass, "delete") : mass.calls[i].blob = b

\* Once the function has returned without a failed call, no selected blob
\* exists.
SelectedGone ==
    (mass.ret = "returned" /\ \A i \in 1..Len(mass.calls) : mass.calls[i].ok) =>
        SelectedBy(mass) \cap DOMAIN fblobs = {}

\* C24: mass_delete_blobs hands every selected blob to exactly one worker of
\* the pool, starts the second prefix only after the pool of the first has
\* joined, calls delete_blob on every selected blob even when the delete of
\* another one failed, deletes no unselected blob, and without failures
\* leaves no selected blob when it returns.
C24_FanOutDeletesAllSelected ==
    /\ OneWorkerPerBlob
    /\ PrefixesInTurn
    /\ OnlySelectedDeleted
    /\ EverySelectedAttempted
    /\ SelectedGone

====
